---------------------------- MODULE Spec2Model ----------------------------
(***************************************************************************)
(* A model of the time arithmetic of short_story_demo:                     *)
(*   - the subtitle time codec of draft_content.py,                        *)
(*   - the timeline synthesis of draft_gen.py                              *)
(*     (DraftGenerator.create_nested_draft_simple),                        *)
(*   - the outer speed of draft_gen.py (calculate_speed_factor and its     *)
(*     use in DraftGenerator._generate_draft_internal),                    *)
(*   - the bounded splitter of spliter_export_video.py                     *)
(*     (VideoSplitter.calculate_split_points).                             *)
(*                                                                         *)
(* Python floats are modelled as exact rationals <<numerator,              *)
(* denominator>>, so a sum or quotient carries no rounding error of its    *)
(* own; int(x) truncates toward zero as in Python.  The one place where    *)
(* the rounding of a double is modelled is the outer duration              *)
(* int(nested_duration / speed_factor), see IntOfFloatQuotient.  Texts are *)
(* sequences of one-character strings.                                     *)
(***************************************************************************)
EXTENDS Integers, Sequences, FiniteSets, TLC

VARIABLES
    pc,                 \* position of the running routine
    \* --- draft_content.py codec round trip ---
    microseconds,       \* input of microseconds_to_srt_time, <<seconds, us>>
    srt_time,           \* the text it returned
    parsed,             \* srt_time_to_microseconds(srt_time), <<seconds, us>>
    \* --- VideoSplitter.calculate_split_points ---
    dialogues,          \* story['dialogue']
    i,                  \* loop index of the for loop
    current_start,      \* rational seconds
    current_dialogues,
    split_points,
    \* --- DraftGenerator.create_nested_draft_simple ---
    dialogue_list,      \* story.dialogue_list
    gap,                \* self.gap, rational seconds
    dialogue_pos,       \* dialogues of dialogue_list the first loop has taken
    current_time,       \* rational seconds
    segments_info,
    total_duration,     \* microseconds
    uuid_counter,       \* generate_uuid(): every call returns a fresh id
    video_materials,
    audio_materials,
    video_segments,
    audio_segments,
    audio_path_to_material_id,
    \* --- DraftGenerator._generate_draft_internal ---
    nested_duration,    \* microseconds
    speed_factor,       \* rational
    main_duration,       \* microseconds
    \* --- the three parsers of a time text ---
    time_text,          \* the text given to a parser
    parse_result,        \* [by, raised, value]: what the parser returned
    \* --- DraftGenerator._generate_subtitles ---
    subtitle_materials,
    subtitle_tracks,
    \* --- VideoRotator (video_rotator.py) ---
    states,              \* VideoRotator.states: the state of each ring name
    dir_files,           \* the video files in each target directory
    held,                \* the videos each directory has held since the build
    returned,             \* the last call and what it returned
    \* --- configuration switches of draft_gen.py ---
    subtitle_limit,       \* DEBUG_SUBTITLE_LIMIT as configured
    \* --- VideoSplitter.process (spliter_export_video.py) ---
    project_data,        \* the media segments of the loaded cache, each a list of stories
    cache_file,          \* split_video_segments of each story in the cache file
    story_pos,           \* number of stories the two loops have finished
    video_exists,        \* os.path.exists(video_path) of the story taken last
    story_duration,      \* duration probed for the story taken last
    all_output_files,    \* the output files collected so far
    process_result       \* what process returned

codecVars == <<microseconds, srt_time, parsed>>
splitVars == <<dialogues, i, current_start, current_dialogues, split_points>>
synthVars == <<dialogue_list, gap, dialogue_pos, current_time, segments_info, total_duration,
               uuid_counter, video_materials, audio_materials,
               video_segments, audio_segments, audio_path_to_material_id>>
speedVars == <<nested_duration, speed_factor, main_duration>>
parseVars == <<time_text, parse_result>>
subtitleVars == <<subtitle_materials, subtitle_tracks>>
ringVars == <<states, dir_files, held, returned>>
configVars == <<subtitle_limit>>
processVars == <<project_data, cache_file, story_pos, video_exists, story_duration, all_output_files, process_result>>
vars == <<pc, codecVars, splitVars, synthVars, speedVars, parseVars, subtitleVars, ringVars, configVars, processVars>>

\* A path is <<directory, name>>; None (no path) is the empty tuple.
None == <<>>

-----------------------------------------------------------------------------
(* Integer and sequence helpers *)

Range(f) == {f[x] : x \in DOMAIN f}

SeqsUpTo(S, n) == UNION {[1..k -> S] : k \in 0..n}

Abs(n) == IF n < 0 THEN -n ELSE n

RECURSIVE Gcd(_, _)
Gcd(a, b) == IF b = 0 THEN Abs(a) ELSE Gcd(b, a % Abs(b))

\* Python's int(a / b) for an exact quotient: truncation toward zero (b > 0).
TruncDiv(a, b) == IF a >= 0 THEN a \div b ELSE -((-a) \div b)

-----------------------------------------------------------------------------
(* Exact rationals <<n, d>> with d > 0, kept in lowest terms *)

RatOver(n, d, g) ==
    IF d < 0 THEN <<(-n) \div g, (-d) \div g>> ELSE <<n \div g, d \div g>>

Rat(n, d) == RatOver(n, d, Gcd(n, d))

RatInt(n) == <<n, 1>>
RatAdd(a, b) == Rat(a[1] * b[2] + b[1] * a[2], a[2] * b[2])
RatSub(a, b) == Rat(a[1] * b[2] - b[1] * a[2], a[2] * b[2])
RatDiv(a, b) == Rat(a[1] * b[2], a[2] * b[1])
RatLe(a, b) == a[1] * b[2] <= b[1] * a[2]
RatLt(a, b) == a[1] * b[2] < b[1] * a[2]
RatMin(a, b) == IF RatLe(a, b) THEN a ELSE b
RatMax(a, b) == IF RatLe(b, a) THEN a ELSE b

\* int(r * k) for a rational r and a positive integer k, without forming
\* the product r[1] * k.
RatScaleAbs(n, d, k) == (n \div d) * k + ((n % d) * k) \div d

RatScaleTrunc(r, k) ==
    IF r[1] < 0 THEN -RatScaleAbs(-r[1], r[2], k)
    ELSE RatScaleAbs(r[1], r[2], k)

-----------------------------------------------------------------------------
(* Texts: sequences of one-character strings *)

Digits == <<"0", "1", "2", "3", "4", "5", "6", "7", "8", "9">>
IsDigit(c) == \E k \in 1..10 : Digits[k] = c
DigitVal(c) == (CHOOSE k \in 1..10 : Digits[k] = c) - 1

RECURSIVE DecStr(_)
DecStr(n) ==
    IF n < 10 THEN <<Digits[n + 1]>>
    ELSE DecStr(n \div 10) \o <<Digits[(n % 10) + 1]>>

RECURSIVE ZeroPad(_, _)
ZeroPad(s, w) == IF Len(s) >= w THEN s ELSE ZeroPad(<<"0">> \o s, w)

\* f"{n:0wd}"
FormatD(n, w) ==
    IF n < 0 THEN <<"-">> \o ZeroPad(DecStr(-n), w - 1)
    ELSE ZeroPad(DecStr(n), w)

\* str.split(sep) for a one-character separator
RECURSIVE Split(_, _)
Split(s, sep) ==
    IF \E k \in 1..Len(s) : s[k] = sep
    THEN LET k == CHOOSE k \in 1..Len(s) :
                    s[k] = sep /\ \A j \in 1..(k - 1) : s[j] # sep
         IN  <<SubSeq(s, 1, k - 1)>> \o Split(SubSeq(s, k + 1, Len(s)), sep)
    ELSE <<s>>

RECURSIVE DigitsVal(_)
DigitsVal(s) ==
    IF Len(s) = 0 THEN 0
    ELSE DigitsVal(SubSeq(s, 1, Len(s) - 1)) * 10 + DigitVal(s[Len(s)])

\* str.strip() of blanks
RECURSIVE Strip(_)
Strip(s) ==
    IF Len(s) > 0 /\ s[1] = " " THEN Strip(Tail(s))
    ELSE IF Len(s) > 0 /\ s[Len(s)] = " " THEN Strip(SubSeq(s, 1, Len(s) - 1))
    ELSE s

\* int(text): blanks around, an optional sign, then decimal digits.
\* ok = FALSE stands for the ValueError int() raises.
ParseDigits(body, negative) ==
    IF Len(body) > 0 /\ \A k \in 1..Len(body) : IsDigit(body[k])
    THEN [ok |-> TRUE,
          val |-> IF negative THEN -DigitsVal(body) ELSE DigitsVal(body)]
    ELSE [ok |-> FALSE, val |-> 0]

ParseSigned(s) ==
    IF Len(s) > 0 /\ s[1] \in {"+", "-"}
    THEN ParseDigits(Tail(s), s[1] = "-")
    ELSE ParseDigits(s, FALSE)

ParseInt(text) == ParseSigned(Strip(text))

RECURSIVE Pow10(_)
Pow10(k) == IF k = 0 THEN 1 ELSE 10 * Pow10(k - 1)

DigitsOrEmpty(s) == \A k \in 1..Len(s) : IsDigit(s[k])

\* float(text) for the decimal texts "12", "12.5", "12." and ".5" with
\* blanks around and an optional sign: the value is an exact rational.
\* ok = FALSE stands for the ValueError float() raises.
FloatDigits(parts, sign) ==
    IF Len(parts) = 1 /\ Len(parts[1]) > 0 /\ DigitsOrEmpty(parts[1])
    THEN [ok |-> TRUE, val |-> <<sign * DigitsVal(parts[1]), 1>>]
    ELSE IF Len(parts) = 2 /\ DigitsOrEmpty(parts[1]) /\ DigitsOrEmpty(parts[2])
            /\ Len(parts[1]) + Len(parts[2]) > 0
    THEN [ok |-> TRUE,
          val |-> Rat(sign * (DigitsVal(parts[1]) * Pow10(Len(parts[2]))
                              + DigitsVal(parts[2])),
                      Pow10(Len(parts[2])))]
    ELSE [ok |-> FALSE, val |-> <<0, 1>>]

FloatSigned(s) ==
    IF Len(s) > 0 /\ s[1] \in {"+", "-"}
    THEN FloatDigits(Split(Tail(s), "."), IF s[1] = "-" THEN -1 ELSE 1)
    ELSE FloatDigits(Split(s, "."), 1)

ParseFloat(text) == FloatSigned(Strip(text))

\* The parts of "HH:MM:SS,mmm" as the three parsers of the repository take
\* them apart: unpacking split(',') into two names and split(':') into three,
\* then int() of each.  ok = FALSE stands for the exception raised.
ParseFields(h, m, s, ms) ==
    IF h.ok /\ m.ok /\ s.ok /\ ms.ok
    THEN [ok |-> TRUE, h |-> h.val, m |-> m.val, s |-> s.val, ms |-> ms.val]
    ELSE [ok |-> FALSE]

ParseClock(hms, ms_text) ==
    IF Len(hms) # 3 THEN [ok |-> FALSE]
    ELSE ParseFields(ParseInt(hms[1]), ParseInt(hms[2]), ParseInt(hms[3]),
                     ParseInt(ms_text))

ParseParts(parts) ==
    IF Len(parts) # 2 THEN [ok |-> FALSE]
    ELSE ParseClock(Split(parts[1], ":"), parts[2])

ParseHMSms(text) == ParseParts(Split(text, ","))

-----------------------------------------------------------------------------
(* draft_content.py: the subtitle time codec.                              *)
(* A count of microseconds is the pair <<seconds, us>> with 0 <= us <      *)
(* 1000000 standing for seconds * 1000000 + us: Python integers are        *)
(* unbounded, and 100 hours of microseconds do not fit a 32-bit integer.   *)

MicroNorm(sec, us) == <<sec + (us \div 1000000), us % 1000000>>

FieldsToMicros(p) ==
    IF p.ok THEN MicroNorm(p.h * 3600 + p.m * 60 + p.s, p.ms * 1000)
    ELSE <<0, 0>>

srt_time_to_microseconds(text) == FieldsToMicros(ParseHMSms(text))

microseconds_to_srt_time_bad(us) ==
    LET milliseconds == us[1] * 1000 + (us[2] \div 1000)
        seconds == milliseconds \div 1000
        ms_remainder == milliseconds % 1000
        hours == (seconds \div 3600) % 100
        minutes == (seconds % 3600) \div 60
        sec_remainder == seconds % 60
    IN  FormatD(hours, 2) \o <<":">> \o FormatD(minutes, 2) \o <<":">>
        \o FormatD(sec_remainder, 2) \o <<",">> \o FormatD(ms_remainder, 3)

microseconds_to_srt_time(us) ==
    LET milliseconds == us[1] * 1000 + (us[2] \div 1000)
        seconds == milliseconds \div 1000
        ms_remainder == milliseconds % 1000
        hours == seconds \div 3600
        minutes == (seconds % 3600) \div 60
        sec_remainder == seconds % 60
    IN  FormatD(hours, 2) \o <<":">> \o FormatD(minutes, 2) \o <<":">>
        \o FormatD(sec_remainder, 2) \o <<",">> \o FormatD(ms_remainder, 3)


\* A text with a non-numeric seconds field
MalformedText == <<"0", "0", ":", "0", "1", ":", "x", "x", ",", "0", "0", "0">>

-----------------------------------------------------------------------------
(* Values the variables of a routine hold while another routine runs *)

IdleCodec == microseconds = <<0, 0>> /\ srt_time = <<>> /\ parsed = <<0, 0>>

IdleSplit ==
    /\ dialogues = <<>>
    /\ i = 0
    /\ current_start = <<0, 1>>
    /\ current_dialogues = <<>>
    /\ split_points = <<>>

IdleSynth ==
    /\ dialogue_list = <<>>
    /\ gap = <<0, 1>>
    /\ dialogue_pos = 0
    /\ current_time = <<0, 1>>
    /\ segments_info = <<>>
    /\ total_duration = 0
    /\ uuid_counter = 0
    /\ video_materials = <<>>
    /\ audio_materials = <<>>
    /\ video_segments = <<>>
    /\ audio_segments = <<>>
    /\ audio_path_to_material_id = <<>>

IdleParse == time_text = <<>> /\ parse_result = <<>>

IdleSubtitle == subtitle_materials = <<>> /\ subtitle_tracks = <<>>

\* The configuration switches as the source sets them
SUBTITLE_DEBUG_MODE == TRUE
DEBUG_SUBTITLE_LIMIT == 1

IdleConfig == subtitle_limit = DEBUG_SUBTITLE_LIMIT

IdleProcess ==
    /\ project_data = <<>>
    /\ cache_file = <<>>
    /\ story_pos = 0
    /\ video_exists = FALSE
    /\ story_duration = None
    /\ all_output_files = <<>>
    /\ process_result = <<>>

\* The ring names the calls are made with
RingNames == {"ring1", "ring2"}

\* The most video files and target directories a build finds
MaxVideos == 3
MaxDirs == 4

\* The most calls of build, rotate and delete in one run
MaxCalls == 4

\* A ring name that is not a key of self.states
NoRing == [initialized |-> FALSE]

\* No call made yet
NoCall == [op |-> "none", ring |-> "", value |-> FALSE, n |-> 0]

NoFiles == [r \in RingNames |-> [d \in 1..MaxDirs |-> {}]]

IdleRing ==
    /\ states = [r \in RingNames |-> NoRing]
    /\ dir_files = NoFiles
    /\ held = NoFiles
    /\ returned = NoCall

IdleSpeed == nested_duration = 0 /\ speed_factor = <<1, 1>> /\ main_duration = 0

-----------------------------------------------------------------------------
(* The codec round trip: format a count of microseconds, parse the text *)

MaxHours == 123

HourChoices == {0, 1, 99, 100, MaxHours}
MinuteChoices == {0, 59}
SecondChoices == {0, 59}
MilliChoices == {0, 7, 999}
SubMilliChoices == {0, 500}

TimeInputs ==
    {<<h * 3600 + m * 60 + s, ms * 1000 + sub>> :
        h \in HourChoices, m \in MinuteChoices, s \in SecondChoices,
        ms \in MilliChoices, sub \in SubMilliChoices}

InitCodec ==
    /\ pc = "format"
    /\ microseconds \in TimeInputs
    /\ srt_time = <<>>
    /\ parsed = <<0, 0>>
    /\ IdleSplit /\ IdleSynth /\ IdleSpeed /\ IdleParse /\ IdleSubtitle /\ IdleRing /\ IdleConfig /\ IdleProcess

Format ==
    /\ pc = "format"
    /\ srt_time' = microseconds_to_srt_time(microseconds)
    /\ pc' = "parse"
    /\ UNCHANGED <<microseconds, parsed, splitVars, synthVars, speedVars, parseVars, subtitleVars, ringVars, configVars, processVars>>

Parse ==
    /\ pc = "parse"
    /\ parsed' = srt_time_to_microseconds(srt_time)
    /\ pc' = "codec_done"
    /\ UNCHANGED <<microseconds, srt_time, splitVars, synthVars, speedVars, parseVars, subtitleVars, ringVars, configVars, processVars>>

NextCodec == Format \/ Parse

SpecCodec == InitCodec /\ [][NextCodec]_vars

\* C10: for every non-negative t that is a whole number of milliseconds,
\* srt_time_to_microseconds(microseconds_to_srt_time(t)) = t, also at 100
\* hours and more.
RoundTripWholeMillis ==
    (pc = "codec_done" /\ microseconds[2] % 1000 = 0) => parsed = microseconds

\* A round trip of a time of 100 hours or more with a non-zero millisecond part.
RoundTripOver100Hours ==
    /\ pc = "codec_done"
    /\ microseconds[1] >= 100 * 3600
    /\ microseconds[2] = 999000
    /\ Len(srt_time) = 13
    /\ parsed = microseconds

-----------------------------------------------------------------------------
(* draft_gen.py: DraftGenerator.create_nested_draft_simple.                *)
(* Seconds are exact rationals; ranges are integer microseconds.           *)

\* int(x * 1000000) for x seconds
ToMicros(x) == RatScaleTrunc(x, 1000000)

\* time_to_microseconds for a text: ok = FALSE stands for the exception the
\* function lets escape (it has no try).
Raised == [ok |-> FALSE, val |-> 0]

\* "HH:MM:SS,mmm": (h * 3600 + m * 60 + s + ms / 1000.0) seconds
ClockWithMillis(h, m, sec, ms) ==
    IF h.ok /\ m.ok /\ sec.ok /\ ms.ok
    THEN [ok |-> TRUE,
          val |-> ToMicros(Rat((h.val * 3600 + m.val * 60 + sec.val) * 1000
                               + ms.val, 1000))]
    ELSE Raised

\* "S,mmm": float(time_part) + int(ms_part) / 1000.0
SecondsWithMillis(whole, ms) ==
    IF whole.ok /\ ms.ok
    THEN [ok |-> TRUE,
          val |-> ToMicros(RatAdd(whole.val, Rat(ms.val, 1000)))]
    ELSE Raised

\* "HH:MM:SS": int(hours) * 3600 + int(minutes) * 60 + float(seconds)
ClockPlain(h, m, sec) ==
    IF h.ok /\ m.ok /\ sec.ok
    THEN [ok |-> TRUE,
          val |-> ToMicros(RatAdd(RatInt(h.val * 3600 + m.val * 60), sec.val))]
    ELSE Raised

\* "S": float(time_str)
SecondsPlain(whole) ==
    IF whole.ok THEN [ok |-> TRUE, val |-> ToMicros(whole.val)] ELSE Raised

WithComma(hms, parts) ==
    IF Len(hms) = 3
    THEN ClockWithMillis(ParseInt(hms[1]), ParseInt(hms[2]), ParseInt(hms[3]),
                         ParseInt(parts[2]))
    ELSE SecondsWithMillis(ParseFloat(parts[1]), ParseInt(parts[2]))

WithoutComma(hms, time_str) ==
    IF Len(hms) = 3
    THEN ClockPlain(ParseInt(hms[1]), ParseInt(hms[2]), ParseFloat(hms[3]))
    ELSE SecondsPlain(ParseFloat(time_str))

TimeOfParts(parts, time_str) ==
    IF Len(parts) = 2 THEN WithComma(Split(parts[1], ":"), parts)
    ELSE IF Len(parts) = 1 THEN WithoutComma(Split(time_str, ":"), time_str)
    ELSE Raised

time_to_microseconds(time_str) == TimeOfParts(Split(time_str, ","), time_str)

\* The voice-over files on disk: length in milliseconds (pydub's
\* len(audio)), -1 for a path that cannot be read.  A path is
\* <<directory, name>>.
AudioFileMillis(audio_path) ==
    CASE audio_path = <<"tts", "vo_50.mp3">> -> 50
      [] audio_path = <<"tts", "vo_200.mp3">> -> 200
      [] audio_path = <<"tts", "vo_2000.mp3">> -> 2000
      [] audio_path = <<"alt", "vo_200.mp3">> -> 300
      [] OTHER -> -1

basename(path) == path[2]

\* get_audio_duration: seconds; 1.0 when the file cannot be read.
get_audio_duration(audio_path) ==
    IF AudioFileMillis(audio_path) >= 0
    THEN Rat(AudioFileMillis(audio_path), 1000)
    ELSE <<1, 1>>

\* start and end of a video segment in seconds (microseconds / 1000000.0)
SpanSeconds(video_seg) ==
    [start |-> Rat(time_to_microseconds(video_seg.start).val, 1000000),
     end |-> Rat(time_to_microseconds(video_seg.end).val, 1000000)]

SpanParses(video_seg) ==
    time_to_microseconds(video_seg.start).ok
    /\ time_to_microseconds(video_seg.end).ok

\* source_duration = source_end - source_start
SourceDuration(video_seg) ==
    RatSub(SpanSeconds(video_seg).end, SpanSeconds(video_seg).start)

RECURSIVE TotalVideoDuration(_)
TotalVideoDuration(segs) ==
    IF Len(segs) = 0 THEN <<0, 1>>
    ELSE RatAdd(TotalVideoDuration(SubSeq(segs, 1, Len(segs) - 1)),
                SourceDuration(segs[Len(segs)]))

\* video_speed = total_video_duration / max(audio_duration, 0.1)
VideoSpeed(total_video_duration, audio_duration) ==
    RatDiv(total_video_duration, RatMax(audio_duration, <<1, 10>>))

\* The cursor after one span of adjusted_duration seconds placed at cursor.
AdvanceCursor(cursor, adjusted_duration) == RatAdd(cursor, adjusted_duration)

AdjustedDuration_raw(video_seg, video_speed) == SourceDuration(video_seg)
\* adjusted_duration = source_duration / video_speed
AdjustedDuration(video_seg, video_speed) ==
    RatDiv(SourceDuration(video_seg), video_speed)

\* The segments_info entry of video segment k (counted from 0) of a dialogue,
\* placed at cursor.
SegmentInfo(dialogue, k, video_speed, cursor) ==
    [target_start |-> cursor,
     audio_duration |->
         AdjustedDuration(dialogue.video_segments[k + 1], video_speed),
     source_start |-> SpanSeconds(dialogue.video_segments[k + 1]).start,
     source_duration |-> SourceDuration(dialogue.video_segments[k + 1]),
     audio_path |-> dialogue.audio_path,
     video_speed |-> video_speed,
     dialogue_obj |-> dialogue.index,
     video_seg_idx |-> k,
     total_video_segs |-> Len(dialogue.video_segments)]

\* The inner loop over a dialogue's video segments, from segment k on (k
\* counted from 0): <<segments_info, current_time>> after it.
RECURSIVE PlaceSpans(_, _, _, _, _)
PlaceSpans(dialogue, k, video_speed, infos, cursor) ==
    IF k >= Len(dialogue.video_segments) THEN <<infos, cursor>>
    ELSE PlaceSpans(dialogue, k + 1, video_speed,
                    Append(infos, SegmentInfo(dialogue, k, video_speed, cursor)),
                    AdvanceCursor(cursor,
                        AdjustedDuration(dialogue.video_segments[k + 1],
                                         video_speed)))

\* One iteration of the first loop: the next dialogue of the story.
PlaceDialogue ==
    /\ pc = "place"
    /\ dialogue_pos < Len(dialogue_list)
    /\ \E dialogue \in {dialogue_list[dialogue_pos + 1]} :
         IF dialogue.audio_path = None
         THEN /\ pc' = "place"
              /\ UNCHANGED <<current_time, segments_info>>
         ELSE IF \E k \in 1..Len(dialogue.video_segments) :
                     ~SpanParses(dialogue.video_segments[k])
         THEN \* time_to_microseconds raises: the call ends
              /\ pc' = "synth_raised"
              /\ current_time' = RatAdd(current_time, gap)
              /\ UNCHANGED segments_info
         ELSE IF TotalVideoDuration(dialogue.video_segments) = <<0, 1>>
         THEN /\ pc' = "place"
              /\ current_time' = RatAdd(current_time, gap)
              /\ UNCHANGED segments_info
         ELSE \E placed \in
                  {PlaceSpans(dialogue, 0,
                       VideoSpeed(TotalVideoDuration(dialogue.video_segments),
                                  get_audio_duration(dialogue.audio_path)),
                       segments_info, RatAdd(current_time, gap))} :
                /\ pc' = "place"
                /\ segments_info' = placed[1]
                /\ current_time' = placed[2]
    /\ dialogue_pos' = dialogue_pos + 1
    /\ UNCHANGED <<dialogue_list, gap, total_duration, uuid_counter,
                   video_materials, audio_materials, video_segments,
                   audio_segments, audio_path_to_material_id,
                   codecVars, splitVars, speedVars, parseVars, subtitleVars, ringVars, configVars, processVars>>

VIDEO_PATH == <<"videos", "source.mp4">>

MaterialPath(path) == <<"##_draftpath_placeholder_##/materials", basename(path)>>

\* info['audio_path'] in audio_path_to_material_id
IsRegistered_never(registry, audio_path) == FALSE
IsRegistered(registry, audio_path) == audio_path \in DOMAIN registry

\* info['video_seg_idx'] == 0: the entry that gets the audio segment
IsFirstSpan_always(info) == TRUE
IsFirstSpan(info) == info.video_seg_idx = 0

\* The video material of one segments_info entry.
NewVideoMaterial_shared(video_id) ==
    [id |-> 1, material_name |-> basename(VIDEO_PATH),
     path |-> MaterialPath(VIDEO_PATH), duration |-> 44733333]

NewVideoMaterial(video_id) ==
    [id |-> video_id, material_name |-> basename(VIDEO_PATH),
     path |-> MaterialPath(VIDEO_PATH), duration |-> 44733333]

NewAudioMaterial(audio_id, audio_path) ==
    [id |-> audio_id,
     name |-> basename(audio_path),
     path |-> MaterialPath(audio_path),
     duration |-> ToMicros(get_audio_duration(audio_path)),
     type |-> "sound"]

NewVideoSegment(segment_id, video_id, info) ==
    [id |-> segment_id,
     material_id |-> video_id,
     source_timerange |->
         [duration |-> ToMicros(info.source_duration),
          start |-> ToMicros(info.source_start)],
     target_timerange |->
         [duration |-> ToMicros(info.audio_duration),
          start |-> ToMicros(info.target_start)],
     speed |-> info.video_speed,
     volume |-> 0]

NewAudioSegment(segment_id, audio_id, info) ==
    [id |-> segment_id,
     material_id |-> audio_id,
     source_timerange |->
         [duration |-> ToMicros(get_audio_duration(info.audio_path)),
          start |-> 0],
     target_timerange |->
         [duration |-> ToMicros(get_audio_duration(info.audio_path)),
          start |-> ToMicros(info.target_start)],
     speed |-> <<1, 1>>,
     volume |-> 1]

\* One pass of the second loop for the entry info, over the state st =
\* [uuid, vm, am, vs, as, reg].  generate_uuid() is a counter: every call
\* returns an id not returned before.  The video material takes st.uuid + 1;
\* audio_id is the registered id, or st.uuid + 2 for a new audio material;
\* used is the last id handed out before the segments are made.
BuildEntry(st, info, registered, audio_id, used) ==
    [uuid |-> IF IsFirstSpan(info) THEN used + 2 ELSE used + 1,
     vm |-> Append(st.vm, NewVideoMaterial(st.uuid + 1)),
     am |-> IF registered THEN st.am
            ELSE Append(st.am, NewAudioMaterial(audio_id, info.audio_path)),
     vs |-> Append(st.vs, NewVideoSegment(used + 1, st.uuid + 1, info)),
     as |-> IF IsFirstSpan(info)
            THEN Append(st.as, NewAudioSegment(used + 2, audio_id, info))
            ELSE st.as,
     reg |-> IF registered THEN st.reg
             ELSE (info.audio_path :> audio_id) @@ st.reg]

BuildRegistered(st, info, registered) ==
    IF registered
    THEN BuildEntry(st, info, TRUE, st.reg[info.audio_path], st.uuid + 1)
    ELSE BuildEntry(st, info, FALSE, st.uuid + 2, st.uuid + 2)

\* The second loop, from entry k of segments_info on (k counted from 1).
RECURSIVE BuildFrom(_, _, _)
BuildFrom(infos, k, st) ==
    IF k > Len(infos) THEN st
    ELSE BuildFrom(infos, k + 1,
             BuildRegistered(st, infos[k],
                             IsRegistered(st.reg, infos[k].audio_path)))

-----------------------------------------------------------------------------
(* draft_gen.py: DraftGenerator._generate_subtitles.  The subtitle         *)
(* template of the draft template file is loaded, with one material        *)
(* template and a track template that holds a segment template.            *)


\* os.path.exists for the SRT files on disk
SrtFileExists(srt_path) ==
    srt_path \in {<<"tts", "vo_200.srt">>, <<"tts", "vo_bad.srt">>,
                  <<"tts", "vo_empty.srt">>}

Chars(str) ==
    CASE str = "Hi, you" -> <<"H", "i", ",", " ", "y", "o", "u">>
      [] str = "..." -> <<".", ".", ".">>
      [] str = " ok! " -> <<" ", "o", "k", "!", " ">>

Cue(from_ms, to_ms, str) ==
    [start |-> microseconds_to_srt_time(<<0, from_ms * 1000>>),
     end |-> microseconds_to_srt_time(<<0, to_ms * 1000>>),
     text |-> Chars(str)]

\* _load_srt_file: the entries of the file, each with start, end and text;
\* no entries when the file cannot be read.
_load_srt_file(srt_path) ==
    CASE srt_path = <<"tts", "vo_200.srt">> ->
             <<Cue(0, 120, "Hi, you"), Cue(120, 150, "..."),
               Cue(150, 200, " ok! ")>>
      [] srt_path = <<"tts", "vo_bad.srt">> ->
             <<[start |-> MalformedText,
                end |-> microseconds_to_srt_time(<<0, 90000>>),
                text |-> Chars("Hi, you")]>>
      [] OTHER -> <<>>

\* _clean_subtitle_text: the punctuation marks are removed, every run of
\* blanks becomes one blank, and the blanks at both ends are removed.
Punctuation == {".", ",", "!", "?", ";", ":", "'", "\"", "-", "(", ")", "[",
                "]", "{", "}"}

IsNoPunctuation(c) == c \notin Punctuation

RECURSIVE CollapseBlanks(_)
CollapseBlanks(s) ==
    IF Len(s) < 2 THEN s
    ELSE IF s[1] = " " /\ s[2] = " " THEN CollapseBlanks(Tail(s))
    ELSE <<s[1]>> \o CollapseBlanks(Tail(s))

_clean_subtitle_text(text) ==
    Strip(CollapseBlanks(SelectSeq(text, IsNoPunctuation)))

FieldsToMicroseconds(p) ==
    IF p.ok THEN (p.h * 3600 + p.m * 60 + p.s) * 1000000 + p.ms * 1000
    ELSE 0

\* DraftGenerator._srt_time_to_microseconds: 0 when the text does not parse.
_srt_time_to_microseconds(text) == FieldsToMicroseconds(ParseHMSms(text))

\* audio_target_start = int(info['target_start'] * 1000000)
AudioTargetStart_cursor(info) ==
    ToMicros(RatAdd(info.target_start, info.audio_duration))

AudioTargetStart(info) == ToMicros(info.target_start)

\* One entry of an SRT file, over sub = [uuid, materials, segments]: the
\* material takes sub.uuid + 1 and is dropped when the cleaned text is
\* empty; otherwise the segment takes sub.uuid + 2.
AddCue(sub, subtitle_entry, audio_target_start) ==
    IF Len(_clean_subtitle_text(subtitle_entry.text)) = 0
    THEN [sub EXCEPT !.uuid = sub.uuid + 1]
    ELSE [uuid |-> sub.uuid + 2,
          materials |->
              Append(sub.materials,
                     [id |-> sub.uuid + 1,
                      text |-> _clean_subtitle_text(subtitle_entry.text)]),
          segments |->
              Append(sub.segments,
                     [id |-> sub.uuid + 2,
                      material_id |-> sub.uuid + 1,
                      target_timerange |->
                          [start |-> audio_target_start
                               + _srt_time_to_microseconds(subtitle_entry.start),
                           duration |->
                               _srt_time_to_microseconds(subtitle_entry.end)
                               - _srt_time_to_microseconds(subtitle_entry.start)],
                      source_timerange |->
                          [start |-> 0,
                           duration |->
                               _srt_time_to_microseconds(subtitle_entry.end)
                               - _srt_time_to_microseconds(subtitle_entry.start)]])]

RECURSIVE AddCues(_, _, _, _)
AddCues(sub, srt_subtitles, j, audio_target_start) ==
    IF j > Len(srt_subtitles) THEN sub
    ELSE AddCues(AddCue(sub, srt_subtitles[j], audio_target_start),
                 srt_subtitles, j + 1, audio_target_start)

\* One pass of the loop over segments_info[:process_count]
SubtitlesOfInfo(sub, info, srt_path) ==
    IF info.video_seg_idx # 0 THEN sub
    ELSE IF srt_path = None \/ ~SrtFileExists(srt_path) THEN sub
    ELSE IF Len(_load_srt_file(srt_path)) = 0 THEN sub
    ELSE AddCues(sub, _load_srt_file(srt_path), 1, AudioTargetStart(info))

RECURSIVE SubtitlesFrom(_, _, _, _)
SubtitlesFrom(infos, k, process_count, sub) ==
    IF k > process_count THEN sub
    ELSE SubtitlesFrom(infos, k + 1, process_count,
             SubtitlesOfInfo(sub, infos[k],
                             dialogue_list[infos[k].dialogue_obj].srt_path))

\* process_count = min(DEBUG_SUBTITLE_LIMIT, len(segments_info)) in debug mode
ProcessCount(infos) ==
    IF SUBTITLE_DEBUG_MODE /\ subtitle_limit < Len(infos)
    THEN subtitle_limit
    ELSE Len(infos)

\* The track, whose id is last_uuid + 1, is returned only when it has
\* segments.
SubtitleResult(sub, track_id) ==
    [uuid |-> sub.uuid,
     materials |-> sub.materials,
     tracks |-> IF sub.segments # <<>>
                THEN <<[id |-> track_id, segments |-> sub.segments]>>
                ELSE <<>>]

_generate_subtitles(infos, last_uuid) ==
    SubtitleResult(
        SubtitlesFrom(infos, 1, ProcessCount(infos),
                      [uuid |-> last_uuid + 1, materials |-> <<>>,
                       segments |-> <<>>]),
        last_uuid + 1)

\* After the first loop: total_duration, then the materials and segments of
\* every segments_info entry, then the subtitles.
BuildDraft ==
    /\ pc = "place"
    /\ dialogue_pos = Len(dialogue_list)
    /\ total_duration' = ToMicros(current_time)
    /\ \E st \in {BuildFrom(segments_info, 1,
                      [uuid |-> uuid_counter, vm |-> <<>>, am |-> <<>>,
                       vs |-> <<>>, as |-> <<>>, reg |-> <<>>])} :
         /\ video_materials' = st.vm
         /\ audio_materials' = st.am
         /\ video_segments' = st.vs
         /\ audio_segments' = st.as
         /\ audio_path_to_material_id' = st.reg
         /\ \E sub \in {_generate_subtitles(segments_info, st.uuid)} :
              /\ uuid_counter' = sub.uuid
              /\ subtitle_materials' = sub.materials
              /\ subtitle_tracks' = sub.tracks
    /\ pc' = "synth_done"
    /\ UNCHANGED <<dialogue_list, gap, dialogue_pos, current_time,
                   segments_info, codecVars, splitVars, speedVars, parseVars, ringVars, configVars, processVars>>

-----------------------------------------------------------------------------
(* draft_gen.py: calculate_speed_factor and the outer segment of           *)
(* DraftGenerator._generate_draft_internal.                                *)

TARGET_DURATION_SECONDS == 60
MAX_SPEED_FACTOR == <<3, 2>>

\* calculate_speed_factor with its two module constants as parameters
SpeedFactorWith(original_duration_seconds, target_seconds, max_speed) ==
    IF RatLe(original_duration_seconds, <<0, 1>>) THEN <<1, 1>>
    ELSE LET required_speed == RatDiv(original_duration_seconds,
                                      RatInt(target_seconds))
             final_speed == RatMin(required_speed, max_speed)
         IN  RatMax(final_speed, <<1, 1>>)

calculate_speed_factor_nofloor(original_duration_seconds) ==
    IF RatLe(original_duration_seconds, <<0, 1>>) THEN <<1, 1>>
    ELSE RatMin(RatDiv(original_duration_seconds,
                       RatInt(TARGET_DURATION_SECONDS)),
                MAX_SPEED_FACTOR)

calculate_speed_factor(original_duration_seconds) ==
    SpeedFactorWith(original_duration_seconds, TARGET_DURATION_SECONDS,
                    MAX_SPEED_FACTOR)

RECURSIVE IsPowerOfTwo(_)
IsPowerOfTwo(n) == n = 1 \/ (n > 1 /\ n % 2 = 0 /\ IsPowerOfTwo(n \div 2))

\* The nested durations (microseconds) among those the model runs for which
\* the double quotient nested_duration / speed_factor comes out just below
\* the whole number it is in exact arithmetic: in CPython
\* 62500000 / 1.0416666666666667 and 70000000 / 1.1666666666666667 are both
\* 59999999.99999999.
ShortQuotientDurations == {62500000, 70000000}

\* main_duration = int(nested_duration / speed_factor).  The quotient is the
\* exact one truncated, except that a speed that is no exact double (its
\* denominator is no power of two) can leave the double quotient just below
\* a whole number, and int() then gives one less.
IntOfFloatQuotient_times(n, speed) == RatScaleTrunc(speed, n)
IntOfQuotient(n, speed, q) ==
    IF q[2] = 1 /\ ~IsPowerOfTwo(speed[2]) /\ n \in ShortQuotientDurations
    THEN q[1] - 1
    ELSE TruncDiv(q[1], q[2])

ExactQuotient(n, speed, g) == Rat((n \div g) * speed[2], speed[1] \div g)

IntOfFloatQuotient(n, speed) ==
    IntOfQuotient(n, speed, ExactQuotient(n, speed, Gcd(n, speed[1])))

\* _generate_draft_internal after create_nested_draft_simple has returned:
\* the outer speed and the duration of the outer segment.
\* shutil.copy2 of a dialogue's voice-over raises when the file does not
\* exist; the draft file is written after the copies.
VoiceOverCopyRaises ==
    \E d \in 1..Len(dialogue_list) :
        /\ dialogue_list[d].audio_path # None
        /\ AudioFileMillis(dialogue_list[d].audio_path) < 0

GenerateDraftInternal ==
    /\ pc = "synth_done"
    /\ nested_duration' = total_duration
    /\ speed_factor' = calculate_speed_factor(Rat(total_duration, 1000000))
    /\ main_duration' = IntOfFloatQuotient(total_duration, speed_factor')
    /\ pc' = IF VoiceOverCopyRaises THEN "draft_raised" ELSE "draft_done"
    /\ UNCHANGED <<synthVars, codecVars, splitVars, parseVars, subtitleVars, ringVars, configVars, processVars>>

-----------------------------------------------------------------------------
(* Stories given to the synthesis *)

MaxStoryLen == 2

SrtText(seconds) == microseconds_to_srt_time(<<seconds, 0>>)
Span(from, to) == [start |-> SrtText(from), end |-> SrtText(to)]

\* One span of 1 s; the spans 0-2 s and 5-7 s; three spans of 1 s; one
\* empty span; one span whose end is malformed.
SpanListChoices ==
    {<<Span(0, 1)>>,
     <<Span(0, 2), Span(5, 7)>>,
     <<Span(0, 1), Span(0, 1), Span(0, 1)>>,
     <<Span(2, 2)>>,
     <<[start |-> SrtText(0), end |-> MalformedText]>>}

AudioPathChoices ==
    {None, <<"tts", "vo_50.mp3">>, <<"tts", "vo_200.mp3">>,
     <<"tts", "vo_2000.mp3">>}

GapChoices == {<<0, 1>>, <<1, 2>>}

DialogueKinds ==
    {[audio_path |-> a, video_segments |-> v] :
        a \in AudioPathChoices, v \in SpanListChoices}

Stories ==
    {[k \in 1..Len(kinds) |->
         [index |-> k, audio_path |-> kinds[k].audio_path,
          srt_path |-> None,
          video_segments |-> kinds[k].video_segments]] :
     kinds \in SeqsUpTo(DialogueKinds, MaxStoryLen)}

InitSynth ==
    /\ pc = "place"
    /\ dialogue_list \in Stories
    /\ gap \in GapChoices
    /\ dialogue_pos = 0
    /\ current_time = <<0, 1>>
    /\ segments_info = <<>>
    /\ total_duration = 0
    /\ uuid_counter = 0
    /\ video_materials = <<>>
    /\ audio_materials = <<>>
    /\ video_segments = <<>>
    /\ audio_segments = <<>>
    /\ audio_path_to_material_id = <<>>
    /\ IdleCodec /\ IdleSplit /\ IdleSpeed /\ IdleParse /\ IdleSubtitle /\ IdleRing /\ IdleConfig /\ IdleProcess

NextSynth == PlaceDialogue \/ BuildDraft \/ GenerateDraftInternal

SpecSynth == InitSynth /\ [][NextSynth]_vars

\* Stories with subtitle files: a dialogue has no voice-over or one of 0.2 s,
\* one span or three, and no SRT path, the path of a file with three
\* entries (the second of them punctuation alone), of a file whose entry has
\* a malformed start, or of a file that does not exist.
SrtPathChoices ==
    {None, <<"tts", "vo_200.srt">>, <<"tts", "vo_bad.srt">>,
     <<"tts", "vo_gone.srt">>}

SubtitleDialogueKinds ==
    {[audio_path |-> a, srt_path |-> p, video_segments |-> v] :
        a \in {None, <<"tts", "vo_200.mp3">>},
        p \in SrtPathChoices,
        v \in {<<Span(0, 1)>>, <<Span(0, 1), Span(0, 1), Span(0, 1)>>}}

SubtitleStories ==
    {[k \in 1..Len(kinds) |->
         [index |-> k, audio_path |-> kinds[k].audio_path,
          srt_path |-> kinds[k].srt_path,
          video_segments |-> kinds[k].video_segments]] :
     kinds \in SeqsUpTo(SubtitleDialogueKinds, MaxStoryLen)}

InitSubtitle ==
    /\ pc = "place"
    /\ dialogue_list \in SubtitleStories
    /\ gap \in GapChoices
    /\ dialogue_pos = 0
    /\ current_time = <<0, 1>>
    /\ segments_info = <<>>
    /\ total_duration = 0
    /\ uuid_counter = 0
    /\ video_materials = <<>>
    /\ audio_materials = <<>>
    /\ video_segments = <<>>
    /\ audio_segments = <<>>
    /\ audio_path_to_material_id = <<>>
    /\ IdleCodec /\ IdleSplit /\ IdleSpeed /\ IdleParse /\ IdleSubtitle /\ IdleRing /\ IdleConfig /\ IdleProcess

SpecSubtitle == InitSubtitle /\ [][NextSynth]_vars

\* Stories with faulty dialogues: the voice-over is a file of 0.2 s or the
\* path of a file that does not exist; the spans are one span of 1 s, a span
\* of 2 s followed by an empty one, one reversed span (end before start),
\* or a span of 1 s followed by a reversed one.
FaultyDialogueKinds ==
    {[audio_path |-> a, video_segments |-> v] :
        a \in {<<"tts", "vo_200.mp3">>, <<"tts", "vo_gone.mp3">>},
        v \in {<<Span(0, 1)>>, <<Span(0, 2), Span(5, 5)>>, <<Span(3, 1)>>,
               <<Span(0, 1), Span(3, 1)>>}}

FaultyStories ==
    {[k \in 1..Len(kinds) |->
         [index |-> k, audio_path |-> kinds[k].audio_path,
          srt_path |-> None,
          video_segments |-> kinds[k].video_segments]] :
     kinds \in SeqsUpTo(FaultyDialogueKinds, MaxStoryLen)}

InitFaulty ==
    /\ pc = "place"
    /\ dialogue_list \in FaultyStories
    /\ gap \in GapChoices
    /\ dialogue_pos = 0
    /\ current_time = <<0, 1>>
    /\ segments_info = <<>>
    /\ total_duration = 0
    /\ uuid_counter = 0
    /\ video_materials = <<>>
    /\ audio_materials = <<>>
    /\ video_segments = <<>>
    /\ audio_segments = <<>>
    /\ audio_path_to_material_id = <<>>
    /\ IdleCodec /\ IdleSplit /\ IdleSpeed /\ IdleParse /\ IdleSubtitle /\ IdleRing /\ IdleConfig /\ IdleProcess

SpecFaulty == InitFaulty /\ [][NextSynth]_vars

\* The most DEBUG_SUBTITLE_LIMIT is configured to
MaxSubtitleLimit == 2

\* Stories for the subtitle cap: every dialogue has a voice-over of 0.2 s,
\* one span or three, and the SRT file of three entries or none.
CapDialogueKinds ==
    {[audio_path |-> <<"tts", "vo_200.mp3">>, srt_path |-> p, video_segments |-> v] :
        p \in {None, <<"tts", "vo_200.srt">>},
        v \in {<<Span(0, 1)>>, <<Span(0, 1), Span(0, 1), Span(0, 1)>>}}

CapStories ==
    {[k \in 1..Len(kinds) |->
         [index |-> k, audio_path |-> kinds[k].audio_path,
          srt_path |-> kinds[k].srt_path,
          video_segments |-> kinds[k].video_segments]] :
     kinds \in SeqsUpTo(CapDialogueKinds, MaxStoryLen)}

InitCap ==
    /\ pc = "place"
    /\ dialogue_list \in CapStories
    /\ gap \in GapChoices
    /\ subtitle_limit \in 1..MaxSubtitleLimit
    /\ dialogue_pos = 0
    /\ current_time = <<0, 1>>
    /\ segments_info = <<>>
    /\ total_duration = 0
    /\ uuid_counter = 0
    /\ video_materials = <<>>
    /\ audio_materials = <<>>
    /\ video_segments = <<>>
    /\ audio_segments = <<>>
    /\ audio_path_to_material_id = <<>>
    /\ IdleCodec /\ IdleSplit /\ IdleSpeed /\ IdleParse /\ IdleSubtitle /\ IdleRing /\ IdleProcess

SpecCap == InitCap /\ [][NextSynth]_vars

\* The outer speed alone: nested durations of -5 s to 200 s in steps of
\* 2.5 s, and three that are no whole number of milliseconds.
MaxDurationSteps == 80

DurationInputs ==
    {k * 2500000 : k \in -2..MaxDurationSteps}
    \cup {59999999, 100000001, 133333333}

InitSpeed ==
    /\ pc = "synth_done"
    /\ dialogue_list = <<>>
    /\ gap = <<0, 1>>
    /\ dialogue_pos = 0
    /\ current_time = <<0, 1>>
    /\ segments_info = <<>>
    /\ total_duration \in DurationInputs
    /\ uuid_counter = 0
    /\ video_materials = <<>>
    /\ audio_materials = <<>>
    /\ video_segments = <<>>
    /\ audio_segments = <<>>
    /\ audio_path_to_material_id = <<>>
    /\ IdleCodec /\ IdleSplit /\ IdleSpeed /\ IdleParse /\ IdleSubtitle /\ IdleRing /\ IdleConfig /\ IdleProcess

NextSpeed == GenerateDraftInternal

SpecSpeed == InitSpeed /\ [][NextSpeed]_vars

-----------------------------------------------------------------------------
(* Properties of the synthesis *)

\* The entries of segments_info of the dialogue with index d.
InfosOf(d) == {k \in 1..Len(segments_info) : segments_info[k].dialogue_obj = d}

PlacedDialogues == {segments_info[k].dialogue_obj : k \in 1..Len(segments_info)}

\* The entries that are the first span of their dialogue, and the j-th of
\* them: the entry audio segment j was made from.
FirstInfos == {k \in 1..Len(segments_info) : segments_info[k].video_seg_idx = 0}
NthFirstInfo(j) ==
    CHOOSE k \in FirstInfos : Cardinality({m \in FirstInfos : m <= k}) = j

RECURSIVE SumTargetDurations(_)
SumTargetDurations(ks) ==
    IF ks = {} THEN 0
    ELSE LET k == CHOOSE k \in ks : TRUE
         IN  video_segments[k].target_timerange.duration
             + SumTargetDurations(ks \ {k})

ProbedMicros(d) == ToMicros(get_audio_duration(dialogue_list[d].audio_path))

\* C3 (as claimed): for each placed dialogue the target durations of its
\* video segments add up to its probed voice-over duration, within 1
\* microsecond.
VideoDurationsSumToAudio ==
    pc = "synth_done" =>
        \A d \in PlacedDialogues :
            Abs(SumTargetDurations(InfosOf(d)) - ProbedMicros(d)) <= 1

\* C4 (as claimed, at the default gap of 0): the first video segment starts
\* at 0 and each following one starts where the one before it ends.
VideoSegmentsContiguous ==
    (pc = "synth_done" /\ gap = <<0, 1>> /\ Len(video_segments) > 0) =>
        /\ video_segments[1].target_timerange.start = 0
        /\ \A k \in 1..(Len(video_segments) - 1) :
               video_segments[k + 1].target_timerange.start =
                   video_segments[k].target_timerange.start
                   + video_segments[k].target_timerange.duration

\* C5: each placed dialogue has exactly one audio segment, of speed 1.0,
\* as long as the probed voice-over and starting where the dialogue's
\* first video segment starts.
OneAudioSegmentPerDialogue ==
    pc = "synth_done" =>
        /\ Len(audio_segments) = Cardinality(PlacedDialogues)
        /\ \A j \in 1..Len(audio_segments) :
               LET k == NthFirstInfo(j)
                   d == segments_info[k].dialogue_obj
               IN  /\ \A m \in InfosOf(d) : m >= k
                   /\ audio_segments[j].speed = <<1, 1>>
                   /\ audio_segments[j].target_timerange.duration
                          = ProbedMicros(d)
                   /\ audio_segments[j].target_timerange.start
                          = video_segments[k].target_timerange.start

\* Two placed dialogues, the first with several spans, and their two audio
\* segments.
TwoDialoguesPlacedWithAudio ==
    /\ pc = "synth_done"
    /\ Cardinality(PlacedDialogues) = 2
    /\ Len(audio_segments) = 2
    /\ Len(video_segments) > 2
    /\ Cardinality(InfosOf(1)) > 1
    /\ audio_segments[2].target_timerange.start > 0

PlacedPaths == {segments_info[k].audio_path : k \in 1..Len(segments_info)}

\* C8: the same voice-over path always gets the same material id, distinct
\* paths get distinct ids, and there are as many audio materials as
\* distinct voice-over paths among the placed dialogues.
AudioMaterialsDeduplicated ==
    pc = "synth_done" =>
        /\ Len(audio_materials) = Cardinality(PlacedPaths)
        /\ DOMAIN audio_path_to_material_id = PlacedPaths
        /\ \A a, b \in 1..Len(audio_segments) :
               (segments_info[NthFirstInfo(a)].audio_path
                    = segments_info[NthFirstInfo(b)].audio_path)
               <=> (audio_segments[a].material_id
                        = audio_segments[b].material_id)
        /\ \A a \in 1..Len(audio_segments) :
               \E m \in 1..Len(audio_materials) :
                   audio_materials[m].id = audio_segments[a].material_id

\* Two placed dialogues share one voice-over path and one audio material.
SharedVoiceOverRegisteredOnce ==
    /\ pc = "synth_done"
    /\ Cardinality(PlacedDialogues) = 2
    /\ Cardinality(PlacedPaths) = 1
    /\ Len(audio_materials) = 1
    /\ audio_segments[1].material_id = audio_segments[2].material_id

Placeable(d) ==
    /\ dialogue_list[d].audio_path # None
    /\ \A k \in 1..Len(dialogue_list[d].video_segments) :
           SpanParses(dialogue_list[d].video_segments[k])
    /\ TotalVideoDuration(dialogue_list[d].video_segments) # <<0, 1>>

\* C12 (as claimed): a malformed span timestamp skips only its dialogue:
\* the synthesis of the story still ends with a timeline, and every other
\* dialogue that has a voice-over is placed.
MalformedDialogueSkippedAlone ==
    pc \in {"synth_raised", "synth_done", "draft_done"} =>
        /\ pc # "synth_raised"
        /\ \A d \in 1..Len(dialogue_list) :
               Placeable(d) => d \in PlacedDialogues

\* The segments of the subtitle track
SubtitleSegments ==
    IF subtitle_tracks = <<>> THEN <<>> ELSE subtitle_tracks[1].segments

\* The text of the subtitle material with the given id
SubtitleText(material_id) ==
    subtitle_materials[CHOOSE m \in 1..Len(subtitle_materials) :
                           subtitle_materials[m].id = material_id].text

\* The entries of the SRT file of the dialogue audio segment j belongs to
CuesOfAudioSegment(j) ==
    IF dialogue_list[segments_info[NthFirstInfo(j)].dialogue_obj].srt_path = None
    THEN <<>>
    ELSE _load_srt_file(
             dialogue_list[segments_info[NthFirstInfo(j)].dialogue_obj].srt_path)

\* Microseconds of a cue time: the clock value of a well-formed text
CueMicroseconds(text) ==
    srt_time_to_microseconds(text)[1] * 1000000 + srt_time_to_microseconds(text)[2]

\* C15: every subtitle segment is a cue of the SRT file of a placed
\* dialogue, with the cleaned text of the cue, placed at the target start of
\* that dialogue's audio segment plus the cue's start and as long as the
\* cue; a cue of a dialogue of several spans is not placed from the cursor
\* after its later spans.
SubtitlesFollowAudioStart ==
    pc = "synth_done" =>
        /\ Len(subtitle_materials) = Len(SubtitleSegments)
        /\ \A k \in 1..Len(SubtitleSegments) :
               \E j \in 1..Len(audio_segments) :
                   \E c \in 1..Len(CuesOfAudioSegment(j)) :
                       /\ SubtitleText(SubtitleSegments[k].material_id)
                              = _clean_subtitle_text(CuesOfAudioSegment(j)[c].text)
                       /\ SubtitleSegments[k].target_timerange.start
                              = audio_segments[j].target_timerange.start
                                + CueMicroseconds(CuesOfAudioSegment(j)[c].start)
                       /\ SubtitleSegments[k].target_timerange.duration
                              = CueMicroseconds(CuesOfAudioSegment(j)[c].end)
                                - CueMicroseconds(CuesOfAudioSegment(j)[c].start)

\* The subtitles of a first dialogue of three spans, placed after a gap:
\* two of its three cues are accepted, the second of them starts 150 ms
\* after the audio segment.
SubtitlesOfThreeSpanDialogue ==
    /\ pc = "synth_done"
    /\ Len(SubtitleSegments) = 2
    /\ Len(video_segments) >= 3
    /\ segments_info[1].total_video_segs = 3
    /\ audio_segments[1].target_timerange.start = 500000
    /\ SubtitleSegments[2].target_timerange.start = 650000
    /\ SubtitleSegments[2].target_timerange.duration = 50000
    /\ SubtitleText(SubtitleSegments[2].material_id) = <<"o", "k">>

-----------------------------------------------------------------------------
(* Properties of the outer speed *)

RequiredSpeed == Rat(nested_duration, TARGET_DURATION_SECONDS * 1000000)

TargetMicros == TARGET_DURATION_SECONDS * 1000000

-----------------------------------------------------------------------------
(* spliter_export_video.py: VideoSplitter.calculate_split_points.          *)
(* Seconds are exact rationals.                                            *)

TARGET_MIN_DURATION == 36
TARGET_MAX_DURATION == 60
VIDEO_SPEED_FACTOR == <<3, 2>>

\* VideoSplitter.parse_time_to_seconds: seconds of "HH:MM:SS,mmm", divided
\* by VIDEO_SPEED_FACTOR when apply_speed; 0.0 when the text does not parse.
FieldsSeconds(p) == Rat((p.h * 3600 + p.m * 60 + p.s) * 1000 + p.ms, 1000)

SecondsOfFields(p, apply_speed) ==
    IF ~p.ok THEN <<0, 1>>
    ELSE IF apply_speed THEN RatDiv(FieldsSeconds(p), VIDEO_SPEED_FACTOR)
    ELSE FieldsSeconds(p)

parse_time_to_seconds_nospeed(time_str, apply_speed) ==
    SecondsOfFields(ParseHMSms(time_str), FALSE)

parse_time_to_seconds(time_str, apply_speed) ==
    SecondsOfFields(ParseHMSms(time_str), apply_speed)

\* The end time of a dialogue's last video segment, speed applied.
LastEndSeconds(dialogue) ==
    parse_time_to_seconds(
        dialogue.video_segments[Len(dialogue.video_segments)].end, TRUE)

SplitPoint_fromzero(start, end, indices) ==
    [start_time |-> <<0, 1>>, end_time |-> end,
     duration |-> end, dialogue_indices |-> indices]
SplitPoint(start, end, indices) ==
    [start_time |-> start, end_time |-> end,
     duration |-> RatSub(end, start), dialogue_indices |-> indices]

\* On backtrack the split point takes current_dialogues[:-1] ...
BacktrackIndices_all(cur) == cur
BacktrackIndices(cur) == SubSeq(cur, 1, Len(cur) - 1)

\* ... and the next chunk restarts from the current dialogue alone.
BacktrackReseed(cur, idx) == <<idx>>

\* One iteration of the for loop over the dialogues, for dialogue idx
\* (counted from 0 as enumerate does).
SplitIteration ==
    /\ pc = "split_loop"
    /\ i < Len(dialogues)
    /\ \E dialogue \in {dialogues[i + 1]} :
         IF Len(dialogue.video_segments) = 0
         THEN UNCHANGED <<current_start, current_dialogues, split_points>>
         ELSE
           \E end_seconds \in {LastEndSeconds(dialogue)},
              appended \in {Append(current_dialogues, i)} :
             \E duration \in {RatSub(end_seconds, current_start)} :
               IF RatLe(RatInt(TARGET_MIN_DURATION), duration)
                  /\ RatLe(duration, RatInt(TARGET_MAX_DURATION))
               THEN /\ split_points' = Append(split_points,
                            SplitPoint(current_start, end_seconds, appended))
                    /\ current_start' = end_seconds
                    /\ current_dialogues' = <<>>
               ELSE IF RatLt(RatInt(TARGET_MAX_DURATION), duration)
                       /\ Len(appended) > 1
               THEN \E prev_end_seconds \in
                        {LastEndSeconds(
                             dialogues[appended[Len(appended) - 1] + 1])} :
                      /\ split_points' = Append(split_points,
                              SplitPoint(current_start, prev_end_seconds,
                                         BacktrackIndices(appended)))
                      /\ current_start' = prev_end_seconds
                      /\ current_dialogues' = BacktrackReseed(appended, i)
               ELSE /\ current_dialogues' = appended
                    /\ UNCHANGED <<current_start, split_points>>
    /\ i' = i + 1
    /\ pc' = "split_loop"
    /\ UNCHANGED <<dialogues, codecVars, synthVars, speedVars, parseVars, subtitleVars, ringVars, configVars, processVars>>

\* TARGET_MIN_DURATION <= final_duration <= TARGET_MAX_DURATION
TailInBounds_nomin(final_duration) ==
    RatLe(final_duration, RatInt(TARGET_MAX_DURATION))

TailInBounds(final_duration) ==
    /\ RatLe(RatInt(TARGET_MIN_DURATION), final_duration)
    /\ RatLe(final_duration, RatInt(TARGET_MAX_DURATION))

\* After the loop: the remaining dialogues are a last split point when their
\* duration is within the bounds.
SplitTail ==
    /\ pc = "split_loop"
    /\ i = Len(dialogues)
    /\ IF Len(current_dialogues) > 0
       THEN \E last_end_seconds \in
                {LastEndSeconds(
                     dialogues[current_dialogues[Len(current_dialogues)] + 1])} :
              IF TailInBounds(RatSub(last_end_seconds, current_start))
              THEN split_points' = Append(split_points,
                       SplitPoint(current_start, last_end_seconds,
                                  current_dialogues))
              ELSE UNCHANGED split_points
       ELSE UNCHANGED split_points
    /\ pc' = "split_done"
    /\ UNCHANGED <<dialogues, i, current_start, current_dialogues,
                   codecVars, synthVars, speedVars, parseVars, subtitleVars, ringVars, configVars, processVars>>

\* Stories: up to MaxDialogues dialogues, each without video segments or
\* with one whose end is one of EndTexts.
MaxDialogues == 3

\* Source-video seconds; divided by VIDEO_SPEED_FACTOR they are 0, 20, 36,
\* 40, 60, 70 and 100 seconds of the rendered file.
EndSourceSeconds == {0, 30, 54, 60, 90, 105, 150}

EndTexts ==
    {microseconds_to_srt_time(<<t, 0>>) : t \in EndSourceSeconds}
    \cup {MalformedText}

SplitDialogueChoices ==
    {[video_segments |-> <<>>]}
    \cup {[video_segments |->
              <<[start |-> microseconds_to_srt_time(<<0, 0>>), end |-> e]>>] :
          e \in EndTexts}

InitSplit ==
    /\ pc = "split_loop"
    /\ dialogues \in SeqsUpTo(SplitDialogueChoices, MaxDialogues)
    /\ i = 0
    /\ current_start = <<0, 1>>
    /\ current_dialogues = <<>>
    /\ split_points = <<>>
    /\ IdleCodec /\ IdleSynth /\ IdleSpeed /\ IdleParse /\ IdleSubtitle /\ IdleRing /\ IdleConfig /\ IdleProcess

NextSplit == SplitIteration \/ SplitTail

SpecSplit == InitSplit /\ [][NextSplit]_vars

\* Every index list of the split points, one after the other.
RECURSIVE FlattenIndices(_)
FlattenIndices(points) ==
    IF Len(points) = 0 THEN <<>>
    ELSE points[1].dialogue_indices \o FlattenIndices(Tail(points))

InBounds(d) ==
    RatLe(RatInt(TARGET_MIN_DURATION), d) /\ RatLe(d, RatInt(TARGET_MAX_DURATION))

\* C1 (as claimed): every split point calculate_split_points returns has
\* MIN <= end_time - start_time <= MAX.
SplitPointsWithinBounds ==
    \A k \in 1..Len(split_points) :
        InBounds(RatSub(split_points[k].end_time, split_points[k].start_time))

\* C2: the dialogue_indices of the split points of one story are pairwise
\* disjoint and in increasing order, inside a split point and from one
\* split point to the next.
SplitIndicesDisjointOrdered ==
    LET flat == FlattenIndices(split_points)
    IN  \A a, b \in 1..Len(flat) : a < b => flat[a] < flat[b]

\* A finished split with two split points, one of them emitted on backtrack
\* and one holding two dialogues.
SplitTwoPointsReturned ==
    /\ pc = "split_done"
    /\ Len(split_points) >= 2
    /\ \E k \in 1..Len(split_points) :
           Len(split_points[k].dialogue_indices) >= 2
    /\ \E k \in 1..Len(split_points) :
           ~InBounds(split_points[k].duration)

\* The next dialogue of the loop has video segments.
NextHasSegments ==
    /\ pc = "split_loop"
    /\ i < Len(dialogues)
    /\ Len(dialogues[i + 1].video_segments) > 0

\* Seconds from current_start to the end of the next dialogue of the loop.
NextDuration == RatSub(LastEndSeconds(dialogues[i + 1]), current_start)

\* C13 (as claimed): when a single dialogue alone makes the accumulated
\* duration exceed MAX (the current set is empty before it), the step drops
\* it: it is in no split point and not in the current set, and accumulation
\* restarts at its end.
OverlongSingleDialogueDropped ==
    [][(NextHasSegments /\ current_dialogues = <<>>
        /\ RatLt(RatInt(TARGET_MAX_DURATION), NextDuration))
       => (/\ current_dialogues' = <<>>
           /\ current_start' = LastEndSeconds(dialogues[i + 1])
           /\ \A k \in 1..Len(split_points') :
                  \A j \in 1..Len(split_points'[k].dialogue_indices) :
                      split_points'[k].dialogue_indices[j] # i)]_vars

\* Seconds from current_start to the end of the last dialogue of the
\* current set.
TailDuration ==
    RatSub(LastEndSeconds(
               dialogues[current_dialogues[Len(current_dialogues)] + 1]),
           current_start)

\* The last split point is the one made of the current set.
TailEmitted ==
    /\ Len(split_points) > 0
    /\ split_points[Len(split_points)].dialogue_indices = current_dialogues
    /\ split_points[Len(split_points)].start_time = current_start
    /\ split_points[Len(split_points)].duration = TailDuration

\* C14: after the last dialogue a non-empty remaining set is a final split
\* point if and only if its duration, the end of its last dialogue minus
\* current_start, is within [MIN, MAX]; otherwise no split point holds any
\* of its dialogues.
TailEmittedIffInBounds ==
    (pc = "split_done" /\ current_dialogues # <<>>) =>
        /\ InBounds(TailDuration) <=> TailEmitted
        /\ ~InBounds(TailDuration) =>
               \A k \in 1..Len(current_dialogues) :
                   \A j \in 1..Len(FlattenIndices(split_points)) :
                       FlattenIndices(split_points)[j] # current_dialogues[k]

\* A finished split whose tail, the dialogue a backtrack restarted from,
\* became the second split point.
TailBecameSplitPoint ==
    /\ pc = "split_done"
    /\ Len(current_dialogues) = 1
    /\ Len(split_points) = 2
    /\ InBounds(TailDuration)
    /\ TailEmitted

\* The end of the dialogue before the next one in the current set.
PrevEndSeconds ==
    LastEndSeconds(dialogues[current_dialogues[Len(current_dialogues)] + 1])

\* C19 (as claimed): when the next dialogue d makes the accumulated duration
\* exceed MAX and the current set then holds more than one dialogue, the
\* split point emitted ends at the previous dialogue's end, holds every
\* accumulated dialogue except d and is shorter than MAX; afterwards
\* current_start is that end and the current set is exactly {d}.
BacktrackEmitsShortChunk ==
    [][(NextHasSegments /\ current_dialogues # <<>>
        /\ RatLt(RatInt(TARGET_MAX_DURATION), NextDuration))
       => (/\ Len(split_points') = Len(split_points) + 1
           /\ split_points'[Len(split_points')].end_time = PrevEndSeconds
           /\ split_points'[Len(split_points')].dialogue_indices
                  = current_dialogues
           /\ RatLt(split_points'[Len(split_points')].duration,
                    RatInt(TARGET_MAX_DURATION))
           /\ current_start' = PrevEndSeconds
           /\ current_dialogues' = <<i>>)]_vars

\* The story of three dialogues that end at 20 s, 40 s and 70 s of the
\* rendered file (30 s, 60 s and 105 s of the source).
ExampleStory ==
    [k \in 1..3 |->
        [video_segments |->
            <<[start |-> microseconds_to_srt_time(<<0, 0>>),
               end |-> microseconds_to_srt_time(
                           <<(<<30, 60, 105>>)[k], 0>>)]>>]]

\* C20: while the accumulated duration is below MIN the step emits nothing
\* and the dialogue joins the current set; a dialogue that brings it into
\* [MIN, MAX] emits {current_start, its end, the current set with it} and
\* the next chunk starts at its end with an empty set.  Dialogue ends of
\* 20 s, 40 s and 70 s give exactly one split point, 0-40 s with the first
\* two dialogues, and the remainder is discarded.
AccumulateThenEmit ==
    /\ []((pc = "split_done" /\ dialogues = ExampleStory) =>
            split_points = <<SplitPoint(<<0, 1>>, <<40, 1>>, <<0, 1>>)>>)
    /\ [][(NextHasSegments
           /\ RatLt(NextDuration, RatInt(TARGET_MIN_DURATION)))
          => (/\ split_points' = split_points
              /\ current_start' = current_start
              /\ current_dialogues' = Append(current_dialogues, i))]_vars
    /\ [][(NextHasSegments /\ InBounds(NextDuration))
          => (/\ split_points' = Append(split_points,
                     [start_time |-> current_start,
                      end_time |-> LastEndSeconds(dialogues[i + 1]),
                      duration |-> NextDuration,
                      dialogue_indices |-> Append(current_dialogues, i)])
              /\ current_start' = LastEndSeconds(dialogues[i + 1])
              /\ current_dialogues' = <<>>)]_vars

\* The split of the example story has ended with its one split point.
ExampleStorySplit ==
    /\ pc = "split_done"
    /\ dialogues = ExampleStory
    /\ Len(split_points) = 1
    /\ split_points[1].dialogue_indices = <<0, 1>>
    /\ current_dialogues = <<2>>

\* C16 (as claimed): the factor by which the splitter divides the dialogue
\* end times is the outer speed factor the synthesis computed for the story
\* from its nested duration.
SplitterFactorIsOuterSpeed ==
    pc = "draft_done" => VIDEO_SPEED_FACTOR = speed_factor

-----------------------------------------------------------------------------
(* The three parsers of a time text, each on its own:                      *)
(* srt_time_to_microseconds (draft_content.py), parse_time_to_seconds      *)
(* (spliter_export_video.py) and time_to_microseconds (draft_gen.py).      *)

\* Times (seconds, milliseconds) whose texts are given to the parsers; their
\* microseconds fit 32 bits.
ParseTimeChoices == {<<0, 0>>, <<5, 919>>, <<59, 7>>, <<61, 0>>, <<725, 250>>,
                     <<2000, 1>>}

ReplaceAt(s, k, c) == [j \in 1..Len(s) |-> IF j = k THEN c ELSE s[j]]

\* A well-formed text and the texts made from it by one change: a point for
\* the comma, no hours, a letter for a digit of the seconds or of the
\* milliseconds, a second comma, no milliseconds, an empty minute, and only
\* seconds before the comma.
TextsAround(t) ==
    {t,
     ReplaceAt(t, Len(t) - 3, "."),
     SubSeq(t, Len(t) - 8, Len(t)),
     ReplaceAt(t, Len(t) - 4, "x"),
     ReplaceAt(t, Len(t), "x"),
     t \o <<",", "0">>,
     SubSeq(t, 1, Len(t) - 4),
     SubSeq(t, 1, Len(t) - 9) \o SubSeq(t, Len(t) - 6, Len(t)),
     SubSeq(t, Len(t) - 5, Len(t))}

ParseTexts ==
    UNION {TextsAround(microseconds_to_srt_time(<<tm[1], tm[2] * 1000>>)) :
           tm \in ParseTimeChoices}
    \cup {<<>>}

InitParse ==
    /\ pc = "parse_text"
    /\ time_text \in ParseTexts
    /\ parse_result = <<>>
    /\ IdleCodec /\ IdleSplit /\ IdleSynth /\ IdleSpeed /\ IdleSubtitle /\ IdleRing /\ IdleConfig /\ IdleProcess

\* srt_time_to_microseconds never raises: its except returns 0.
ParseSubtitleTime ==
    /\ pc = "parse_text"
    /\ parse_result' = [by |-> "srt_time_to_microseconds", raised |-> FALSE,
                        value |-> srt_time_to_microseconds(time_text)]
    /\ pc' = "parse_done"
    /\ UNCHANGED <<time_text, codecVars, splitVars, synthVars, speedVars, subtitleVars, ringVars, configVars, processVars>>

\* parse_time_to_seconds never raises: its except returns 0.0.
ParseSplitTime ==
    /\ pc = "parse_text"
    /\ parse_result' = [by |-> "parse_time_to_seconds", raised |-> FALSE,
                        value |-> parse_time_to_seconds(time_text, TRUE)]
    /\ pc' = "parse_done"
    /\ UNCHANGED <<time_text, codecVars, splitVars, synthVars, speedVars, subtitleVars, ringVars, configVars, processVars>>

\* time_to_microseconds has no try: an exception leaves the function.
ParseSpanTime ==
    /\ pc = "parse_text"
    /\ parse_result' = [by |-> "time_to_microseconds",
                        raised |-> ~time_to_microseconds(time_text).ok,
                        value |-> time_to_microseconds(time_text).val]
    /\ pc' = "parse_done"
    /\ UNCHANGED <<time_text, codecVars, splitVars, synthVars, speedVars, subtitleVars, ringVars, configVars, processVars>>

NextParse == ParseSubtitleTime \/ ParseSplitTime \/ ParseSpanTime

SpecParse == InitParse /\ [][NextParse]_vars

AllDigits(s) == Len(s) > 0 /\ \A k \in 1..Len(s) : IsDigit(s[k])

\* The text has the structure HH:MM:SS,mmm with numeric components.
WellFormedClock(hms, ms_text) ==
    /\ Len(hms) = 3
    /\ AllDigits(hms[1]) /\ AllDigits(hms[2]) /\ AllDigits(hms[3])
    /\ AllDigits(ms_text)

WellFormedParts(parts) ==
    Len(parts) = 2 /\ WellFormedClock(Split(parts[1], ":"), parts[2])

WellFormedTime(text) == WellFormedParts(Split(text, ","))

\* C11 (as claimed): parsing a text whose comma/colon structure is not
\* HH:MM:SS,mmm, or that has a non-numeric component, ends in an error and
\* never returns a time value.
MalformedTimeIsAnError ==
    (pc = "parse_done" /\ ~WellFormedTime(time_text)) => parse_result.raised

-----------------------------------------------------------------------------
(* VideoRotator: rings of video files over target directories *)

\* What a call returned, and the number of calls made so far
Returned(op, ring_name, value) ==
    [op |-> op, ring |-> ring_name, value |-> value, n |-> returned.n + 1]

\* len(videos), len(target_dirs) of a ring state
NumVideos(state) == Len(state.videos)
NumDirs(state) == Len(state.target_dirs)

\* build_mapping: the mapping of num_videos sorted video files (numbered
\* 1..num_videos) onto num_dirs target directories (numbered 1..num_dirs).
Mapping(ring_name, num_videos, num_dirs) ==
    [initialized |-> TRUE,
     ring_name |-> ring_name,
     videos |-> [k \in 1..num_videos |-> k],
     target_dirs |-> [k \in 1..num_dirs |-> k],
     window_size |-> IF num_videos <= num_dirs THEN num_dirs \div num_videos ELSE 1,
     videos_per_dir |-> IF num_videos <= num_dirs THEN 1
                        ELSE (num_videos + num_dirs - 1) \div num_dirs,
     mode |-> IF num_videos <= num_dirs THEN "video_to_dirs" ELSE "dir_to_videos",
     current_offset |-> 0,
     max_rotations |-> IF num_videos <= num_dirs THEN num_videos ELSE num_dirs,
     rotation_count |-> 0]

\* build_mapping returns {} and changes nothing when the video directory
\* holds no video file (num_videos = 0); otherwise it stores the mapping
\* under ring_name, over an earlier ring of that name.  It copies no file.
BuildMapping ==
    /\ pc = "ring"
    /\ returned.n < MaxCalls
    /\ \E ring_name \in RingNames, num_videos \in 0..MaxVideos, num_dirs \in 1..MaxDirs :
           IF num_videos = 0
           THEN /\ returned' = Returned("build", ring_name, FALSE)
                /\ UNCHANGED <<states, dir_files, held>>
           ELSE /\ states' = [states EXCEPT ![ring_name] =
                                  Mapping(ring_name, num_videos, num_dirs)]
                /\ held' = [held EXCEPT ![ring_name] = [d \in 1..MaxDirs |-> {}]]
                /\ returned' = Returned("build", ring_name, TRUE)
                /\ UNCHANGED dir_files
    /\ UNCHANGED <<pc, codecVars, splitVars, synthVars, speedVars, parseVars, subtitleVars, configVars, processVars>>

CanRotate_always(state) == TRUE
\* rotate goes on only while rotation_count < max_rotations
CanRotate(state) == state.rotation_count < state.max_rotations

\* new_offset = (current_offset + 1) % len(target_dirs)
NewOffset(state) == (state.current_offset + 1) % NumDirs(state)

VideosOfWindow_stride1(state, new_offset, dir_idx) ==
    {state.videos[n + 1] : n \in
        {v \in 0..(NumVideos(state) - 1) :
            \E j \in 0..(state.window_size - 1) :
                (((v + new_offset) % NumDirs(state)) + j) % NumDirs(state) = dir_idx}}
\* Mode "video_to_dirs": video i (from 0) goes to the window_size directories
\* from (i * window_size + new_offset) % len(target_dirs).
VideosOfWindow(state, new_offset, dir_idx) ==
    {state.videos[n + 1] : n \in
        {v \in 0..(NumVideos(state) - 1) :
            \E j \in 0..(state.window_size - 1) :
                (((v * state.window_size + new_offset) % NumDirs(state)) + j)
                    % NumDirs(state) = dir_idx}}

\* Mode "dir_to_videos": the directory at position n (from 0) gets the
\* videos (dir_idx + j * len(target_dirs)) % len(videos), where
\* dir_idx = (n + new_offset) % len(target_dirs).
VideosOfDir(state, new_offset, n) ==
    {state.videos[((((n + new_offset) % NumDirs(state)) + j * NumDirs(state))
                      % NumVideos(state)) + 1] :
        j \in 0..(state.videos_per_dir - 1)}

\* The files rotate copies into target_dirs[n + 1]
Copied(state, new_offset, n) ==
    IF state.mode = "video_to_dirs" THEN VideosOfWindow(state, new_offset, n)
    ELSE VideosOfDir(state, new_offset, n)

\* The target directories after rotate emptied them and copied the videos
FilesAfterRotate(files, state, new_offset) ==
    [d \in 1..MaxDirs |->
        IF d <= NumDirs(state) THEN Copied(state, new_offset, d - 1) ELSE files[d]]

HeldAfterRotate(before, state, new_offset) ==
    [d \in 1..MaxDirs |->
        IF d <= NumDirs(state) THEN before[d] \cup Copied(state, new_offset, d - 1)
        ELSE before[d]]

RotatedState(state) ==
    [state EXCEPT !.current_offset = NewOffset(state),
                  !.rotation_count = state.rotation_count + 1]

\* rotate: False for an unknown ring or one at max_rotations; otherwise the
\* directories are emptied, the videos copied at the next offset and the
\* state updated.
Rotate ==
    /\ pc = "ring"
    /\ returned.n < MaxCalls
    /\ \E ring_name \in RingNames :
           IF states[ring_name] = NoRing \/ ~CanRotate(states[ring_name])
           THEN /\ returned' = Returned("rotate", ring_name, FALSE)
                /\ UNCHANGED <<states, dir_files, held>>
           ELSE /\ dir_files' = [dir_files EXCEPT ![ring_name] =
                                    FilesAfterRotate(dir_files[ring_name], states[ring_name],
                                                     NewOffset(states[ring_name]))]
                /\ held' = [held EXCEPT ![ring_name] =
                               HeldAfterRotate(held[ring_name], states[ring_name],
                                               NewOffset(states[ring_name]))]
                /\ states' = [states EXCEPT ![ring_name] = RotatedState(states[ring_name])]
                /\ returned' = Returned("rotate", ring_name, TRUE)
    /\ UNCHANGED <<pc, codecVars, splitVars, synthVars, speedVars, parseVars, subtitleVars, configVars, processVars>>

\* delete_ring: removes the ring from self.states; the files stay.
DeleteRing ==
    /\ pc = "ring"
    /\ returned.n < MaxCalls
    /\ \E ring_name \in RingNames :
           IF states[ring_name] = NoRing
           THEN /\ returned' = Returned("delete", ring_name, FALSE)
                /\ UNCHANGED <<states, dir_files, held>>
           ELSE /\ states' = [states EXCEPT ![ring_name] = NoRing]
                /\ returned' = Returned("delete", ring_name, TRUE)
                /\ UNCHANGED <<dir_files, held>>
    /\ UNCHANGED <<pc, codecVars, splitVars, synthVars, speedVars, parseVars, subtitleVars, configVars, processVars>>

InitRing ==
    /\ pc = "ring"
    /\ IdleRing
    /\ IdleCodec /\ IdleSplit /\ IdleSynth /\ IdleSpeed /\ IdleParse /\ IdleSubtitle /\ IdleConfig /\ IdleProcess

NextRing == BuildMapping \/ Rotate \/ DeleteRing

SpecRing == InitRing /\ [][NextRing]_vars

\* The rings that are keys of self.states
Rings == {r \in RingNames : states[r] # NoRing}

\* C17: a ring of no more videos than directories that has rotated
\* max_rotations times has had every video in every one of its target
\* directories.
EveryDirectoryHeldEveryVideo ==
    \A r \in Rings :
        (states[r].mode = "video_to_dirs"
         /\ states[r].rotation_count = states[r].max_rotations)
            => \A d \in 1..NumDirs(states[r]) : held[r][d] = Range(states[r].videos)

\* C18: the counters of every ring stay in range; a rotate of a ring at
\* max_rotations returns False and leaves the states and the directories as
\* they were; a rotate that returns True adds one to rotation_count and to
\* current_offset modulo the number of target directories.
RingCountersInRange ==
    /\ [](\A r \in Rings :
              /\ 0 <= states[r].rotation_count
              /\ states[r].rotation_count <= states[r].max_rotations
              /\ 0 <= states[r].current_offset
              /\ states[r].current_offset < NumDirs(states[r]))
    /\ [][\A r \in Rings :
              (returned'.op = "rotate" /\ returned'.ring = r
               /\ states[r].rotation_count >= states[r].max_rotations)
                  => (~returned'.value /\ states' = states /\ dir_files' = dir_files)]_vars
    /\ [][\A r \in Rings :
              (returned'.op = "rotate" /\ returned'.ring = r /\ returned'.value)
                  => /\ states'[r].rotation_count = states[r].rotation_count + 1
                     /\ states'[r].current_offset
                            = (states[r].current_offset + 1) % NumDirs(states[r])
                     /\ NumDirs(states'[r]) = NumDirs(states[r])]_vars

\* A ring of two videos over three directories, rotated twice, refused the
\* third rotate.
RotateRefusedAtMax ==
    /\ returned.op = "rotate" /\ returned.ring = "ring1" /\ ~returned.value
    /\ states["ring1"] # NoRing
    /\ NumVideos(states["ring1"]) = 2
    /\ NumDirs(states["ring1"]) = 3
    /\ states["ring1"].rotation_count = 2
    /\ states["ring1"].current_offset = 2

-----------------------------------------------------------------------------
(* Properties of the dialogues the first loop skips *)

\* The next dialogue is one the first loop skips: it has no voice-over, or
\* its spans parse and their durations sum to zero.
NextIsSkipped ==
    /\ pc = "place"
    /\ dialogue_pos < Len(dialogue_list)
    /\ \/ dialogue_list[dialogue_pos + 1].audio_path = None
       \/ /\ \A k \in 1..Len(dialogue_list[dialogue_pos + 1].video_segments) :
                 SpanParses(dialogue_list[dialogue_pos + 1].video_segments[k])
          /\ TotalVideoDuration(dialogue_list[dialogue_pos + 1].video_segments)
                 = <<0, 1>>

\* C21 (as claimed): the step that takes a skipped dialogue adds no
\* segments_info entry and leaves the cursor where it was, whatever the gap.
SkippedDialogueLeavesCursor ==
    [][(NextIsSkipped /\ dialogue_pos' = dialogue_pos + 1)
          => (segments_info' = segments_info /\ current_time' = current_time)]_vars

-----------------------------------------------------------------------------
(* Properties of the video segments of a dialogue *)

\* The span video segment k was made from, and its dialogue
DialogueOfSegment(k) == dialogue_list[segments_info[k].dialogue_obj]
SpanOfSegment(k) ==
    DialogueOfSegment(k).video_segments[segments_info[k].video_seg_idx + 1]

\* Microseconds between the start and the end of a span
SpanMicros(span) ==
    time_to_microseconds(span.end).val - time_to_microseconds(span.start).val

\* (sum of the dialogue's span durations) / max(audio_duration, 0.1 s)
SpeedOfDialogue(dialogue) ==
    RatDiv(TotalVideoDuration(dialogue.video_segments),
           RatMax(get_audio_duration(dialogue.audio_path), <<1, 10>>))

\* Every video segment has the speed of its dialogue and the raw span as
\* its source range.
SegmentsCarrySpeedAndSpan ==
    /\ Len(video_segments) = Len(segments_info)
    /\ \A k \in 1..Len(video_segments) :
           /\ video_segments[k].speed = SpeedOfDialogue(DialogueOfSegment(k))
           /\ video_segments[k].source_timerange.start
                  = time_to_microseconds(SpanOfSegment(k).start).val
           /\ video_segments[k].source_timerange.duration
                  = SpanMicros(SpanOfSegment(k))

-----------------------------------------------------------------------------
(* Properties of faulty spans and voice-overs *)

\* C23 (as claimed): no video segment comes from a span with end <= start:
\* every video segment has a source duration, a target duration and a speed
\* above zero, and the cursor never moved backwards from one segments_info
\* entry to the next.
NoSegmentFromEmptySpan ==
    /\ \A k \in 1..Len(video_segments) :
           /\ SpanMicros(SpanOfSegment(k)) > 0
           /\ video_segments[k].source_timerange.duration > 0
           /\ video_segments[k].target_timerange.duration > 0
           /\ RatLt(<<0, 1>>, video_segments[k].speed)
    /\ \A k \in 1..(Len(segments_info) - 1) :
           RatLe(segments_info[k].target_start, segments_info[k + 1].target_start)
    /\ Len(segments_info) > 0 =>
           RatLe(segments_info[Len(segments_info)].target_start, current_time)

-----------------------------------------------------------------------------
(* Properties of the subtitle cap *)

\* The first n placed dialogues, in the order of the story
FirstPlacedDialogues(n) ==
    {d \in PlacedDialogues : Cardinality({e \in PlacedDialogues : e <= d}) <= n}

\* The entries of an SRT file whose cleaned text is not empty
AcceptedCues(srt_path) ==
    IF srt_path = None \/ ~SrtFileExists(srt_path) THEN {}
    ELSE {c \in 1..Len(_load_srt_file(srt_path)) :
             Len(_clean_subtitle_text(_load_srt_file(srt_path)[c].text)) > 0}

RECURSIVE CountAcceptedCues(_)
CountAcceptedCues(ds) ==
    IF ds = {} THEN 0
    ELSE Cardinality(AcceptedCues(dialogue_list[CHOOSE d \in ds : TRUE].srt_path))
         + CountAcceptedCues(ds \ {CHOOSE d \in ds : TRUE})

\* C24 (as claimed): with the cap at N the subtitle track holds the accepted
\* cues of the first N placed dialogues and no others, however many spans
\* those dialogues have.
SubtitlesOfFirstNDialogues ==
    pc = "synth_done" =>
        Len(SubtitleSegments) = CountAcceptedCues(FirstPlacedDialogues(subtitle_limit))

\* C25 (as claimed): a dialogue whose voice-over file does not exist is
\* left out of the render: it has no segments_info entry, and so no video or
\* audio segment and no move of the cursor, and the draft of the story is
\* still produced.
MissingVoiceOverExcluded ==
    /\ \A k \in 1..Len(segments_info) :
           AudioFileMillis(segments_info[k].audio_path) >= 0
    /\ pc # "draft_raised"

\* C26 (as claimed): a draft is produced only for a story of which some
\* dialogue was placed, and never with a total duration of 0.
NoDraftOfEmptyStory ==
    pc = "draft_done" =>
        /\ Len(segments_info) > 0
        /\ nested_duration > 0
        /\ main_duration > 0

-----------------------------------------------------------------------------
(* Properties of the windows of a ring *)

\* The target directories of ring r that hold video v
DirsHolding(r, v) == {d \in 1..NumDirs(states[r]) : v \in dir_files[r][d]}

-----------------------------------------------------------------------------
(* Properties of the chain of split points *)

\* C30: the first split point starts at 0 and every later one starts where
\* the one before it ends.
SplitPointsChainFromZero ==
    /\ Len(split_points) > 0 => split_points[1].start_time = <<0, 1>>
    /\ \A k \in 1..(Len(split_points) - 1) :
           split_points[k + 1].start_time = split_points[k].end_time

\* Dialogues ending at 40 s and 100 s of the rendered file: the split
\* points 0-40 s and 40-100 s.
SplitPointsChainedAtForty ==
    /\ pc = "split_done"
    /\ Len(split_points) = 2
    /\ split_points[1].start_time = <<0, 1>>
    /\ split_points[1].end_time = <<40, 1>>
    /\ split_points[2].start_time = <<40, 1>>
    /\ split_points[2].end_time = <<100, 1>>

-----------------------------------------------------------------------------
(* spliter_export_video.py: VideoSplitter.process and the routines it      *)
(* calls.  A file name is the list of its parts between underscores, the   *)
(* extension .mp4 left out; a directory is the list of its components.     *)

\* The stories of a project, all its media segments together, and the media
\* segments, of which some may have no story
MaxStories == 2
MaxSegments == MaxStories

\* The position <<segment, story_idx>> of every story, in the order the two
\* for loops of process take them (story_idx counted from 0 as enumerate
\* does).
RECURSIVE PositionsFrom(_, _)
PositionsFrom(data, s) ==
    IF s > Len(data) THEN <<>>
    ELSE [t \in 1..Len(data[s].stories) |-> <<s, t - 1>>]
         \o PositionsFrom(data, s + 1)

Positions(data) == PositionsFrom(data, 1)

StoryAt(data, pos) == data[pos[1]].stories[pos[2] + 1]

\* The exported file of the story at a position, named as the draft of the
\* story is: {video_id}_story_{n}.
ExportDir == <<"output", "export">>
StoryNumbers == <<"1", "2", "3", "4", "5", "6", "7", "8", "9">>
ExportedPath(k) == <<ExportDir, <<"BV1", "story", StoryNumbers[k]>>>>

\* get_video_duration: the seconds ffprobe reports, None when it fails.
ProbeResults ==
    {None, <<0, 1>>, <<20, 1>>, <<36, 1>>, <<60, 1>>, <<121, 2>>, <<100, 1>>}

\* if not duration: None and 0.0 are both false
NotDuration(duration) == duration = None \/ duration = <<0, 1>>

\* duration < TARGET_MIN_DURATION
BelowMin(duration) == RatLt(duration, RatInt(TARGET_MIN_DURATION))

\* elif duration <= TARGET_MAX_DURATION
WithinMax_strict(duration) == RatLt(duration, RatInt(TARGET_MAX_DURATION))
WithinMax(duration) == RatLe(duration, RatInt(TARGET_MAX_DURATION))

\* split_video: one output file {base_name}_part{i}.mp4 in output_dir for
\* each split point, i counted from 1.
SplitOutputDir == <<"output", "split_videos">>
PartLabels == <<"part1", "part2", "part3", "part4", "part5">>
PartPath(video_path, n) == <<SplitOutputDir, Append(video_path[2], PartLabels[n])>>

split_video(video_path, points) ==
    [n \in 1..Len(points) |->
        [segment_index |-> n,
         video_path |-> PartPath(video_path, n),
         start_time |-> points[n].start_time,
         end_time |-> points[n].end_time,
         duration |-> points[n].duration,
         dialogue_indices |-> points[n].dialogue_indices]]

\* update_project_cache: the first media segment that has a story at
\* story_index takes the list; 0 when no segment has one.
UpdatedSegment(cache, story_index) ==
    IF \E s \in 1..Len(cache) : story_index < Len(cache[s])
    THEN CHOOSE s \in 1..Len(cache) :
            /\ story_index < Len(cache[s])
            /\ \A r \in 1..(s - 1) : ~(story_index < Len(cache[r]))
    ELSE 0

update_project_cache(cache, story_index, split_segments) ==
    IF UpdatedSegment(cache, story_index) = 0 THEN cache
    ELSE [cache EXCEPT ![UpdatedSegment(cache, story_index)][story_index + 1] =
              split_segments]

\* organize_videos: a file named {video_id}_{rest} moves to the folder
\* video_id beside it and is named {rest}; a name without an underscore
\* stays where it is and is not reported.
HasVideoId(path) == Len(path[2]) >= 2
OrganizedPath(path) == <<Append(path[1], path[2][1]), Tail(path[2])>>

\* The video ids in the order their first file comes
RECURSIVE VideoIds(_)
VideoIds(files) ==
    IF Len(files) = 0 THEN <<>>
    ELSE <<files[1][2][1]>>
         \o VideoIds(SelectSeq(Tail(files),
                               LAMBDA f : f[2][1] # files[1][2][1]))

RECURSIVE FilesOfIds(_, _)
FilesOfIds(ids, files) ==
    IF Len(ids) = 0 THEN <<>>
    ELSE SelectSeq(files, LAMBDA f : f[2][1] = ids[1])
         \o FilesOfIds(Tail(ids), files)

MapOrganized(files) == [n \in 1..Len(files) |-> OrganizedPath(files[n])]

\* The values of the organized dictionary, one video id after the other
organized_files(files) ==
    MapOrganized(FilesOfIds(VideoIds(SelectSeq(files, HasVideoId)),
                            SelectSeq(files, HasVideoId)))

\* return organized_files if organized_files else all_output_files
ProcessReturnValue(files) ==
    IF Len(organized_files(files)) > 0 THEN organized_files(files) ELSE files

\* The stories of the cache: without an exported video, or with one and a
\* dialogue list that yields two split points (ends at 40 s and 100 s of the
\* rendered file), one split point (end at 36 s) or none.
ProcessDialogue(end_seconds) ==
    [video_segments |->
        <<[start |-> microseconds_to_srt_time(<<0, 0>>),
           end |-> microseconds_to_srt_time(<<end_seconds, 0>>)]>>]

ProcessDialogueLists ==
    {<<>>, <<ProcessDialogue(54)>>, <<ProcessDialogue(60), ProcessDialogue(150)>>}

StoryKinds ==
    {[exported |-> FALSE, dialogue |-> <<ProcessDialogue(60), ProcessDialogue(150)>>]}
    \cup {[exported |-> TRUE, dialogue |-> d] : d \in ProcessDialogueLists}

\* Number of stories in the media segments before segment s
RECURSIVE StoriesBefore(_, _)
StoriesBefore(data, s) ==
    IF s <= 1 THEN 0
    ELSE StoriesBefore(data, s - 1) + Len(data[s - 1].stories)

KindProjects ==
    {kinds \in SeqsUpTo({[stories |-> st] :
                             st \in SeqsUpTo(StoryKinds, MaxStories)},
                        MaxSegments) :
        StoriesBefore(kinds, Len(kinds) + 1) <= MaxStories}

ProjectOf(kinds) ==
    [s \in 1..Len(kinds) |->
        [stories |->
            [t \in 1..Len(kinds[s].stories) |->
                [exported_video_path |->
                     IF kinds[s].stories[t].exported
                     THEN ExportedPath(StoriesBefore(kinds, s) + t)
                     ELSE None,
                 dialogue |-> kinds[s].stories[t].dialogue]]]]

Projects == {ProjectOf(kinds) : kinds \in KindProjects}

\* The cache file before process: no story has split_video_segments.
UnsplitCache(data) ==
    [s \in 1..Len(data) |-> [t \in 1..Len(data[s].stories) |-> None]]

\* The story the loops are at
CurrentPosition == Positions(project_data)[story_pos + 1]

CurrentStory == StoryAt(project_data, CurrentPosition)

\* One story of the loops of process, up to the call of
\* calculate_split_points: the continue statements and the story that is
\* kept whole.
ProcessStory ==
    /\ pc = "process_story"
    /\ story_pos < Len(Positions(project_data))
    /\ \E story \in {CurrentStory} :
       \E exists \in (IF story.exported_video_path = None
                      THEN {FALSE} ELSE BOOLEAN),
          probed \in ProbeResults :
         /\ (~exists => probed = None)
         /\ video_exists' = exists
         /\ story_duration' = probed
         /\ IF ~exists \/ NotDuration(probed) \/ BelowMin(probed)
            THEN /\ story_pos' = story_pos + 1
                 /\ pc' = "process_story"
                 /\ UNCHANGED <<all_output_files, splitVars>>
            ELSE IF WithinMax(probed)
            THEN /\ all_output_files' =
                        Append(all_output_files, story.exported_video_path)
                 /\ story_pos' = story_pos + 1
                 /\ pc' = "process_story"
                 /\ UNCHANGED splitVars
            ELSE /\ dialogues' = story.dialogue
                 /\ i' = 0
                 /\ current_start' = <<0, 1>>
                 /\ current_dialogues' = <<>>
                 /\ split_points' = <<>>
                 /\ pc' = "split_loop"
                 /\ UNCHANGED <<story_pos, all_output_files>>
    /\ UNCHANGED <<project_data, cache_file, process_result,
                   codecVars, synthVars, speedVars, parseVars, subtitleVars,
                   ringVars, configVars>>

VideoPaths(split_segments) ==
    [n \in 1..Len(split_segments) |-> split_segments[n].video_path]

\* The rest of the loop body once calculate_split_points has returned:
\* split_video (an empty list when ffmpeg fails), update_project_cache and
\* the collection of the output files.
SplitStory ==
    /\ pc = "split_done"
    /\ story_pos < Len(Positions(project_data))
    /\ \E ffmpeg_ok \in BOOLEAN :
       \E split_segments \in
            {IF ffmpeg_ok /\ Len(split_points) > 0
             THEN split_video(CurrentStory.exported_video_path, split_points)
             ELSE <<>>} :
         IF Len(split_segments) > 0
         THEN /\ cache_file' = update_project_cache(
                     cache_file, CurrentPosition[2], split_segments)
              /\ all_output_files' =
                     all_output_files \o VideoPaths(split_segments)
         ELSE UNCHANGED <<cache_file, all_output_files>>
    /\ story_pos' = story_pos + 1
    /\ pc' = "process_story"
    /\ UNCHANGED <<project_data, video_exists, story_duration, process_result,
                   splitVars, codecVars, synthVars, speedVars, parseVars,
                   subtitleVars, ringVars, configVars>>

\* After the loops: the files are organized and returned.
ProcessReturn ==
    /\ pc = "process_story"
    /\ story_pos = Len(Positions(project_data))
    /\ process_result' =
           IF Len(all_output_files) > 0
           THEN ProcessReturnValue(all_output_files)
           ELSE all_output_files
    /\ pc' = "process_done"
    /\ UNCHANGED <<project_data, cache_file, story_pos, video_exists,
                   story_duration, all_output_files,
                   splitVars, codecVars, synthVars, speedVars, parseVars,
                   subtitleVars, ringVars, configVars>>

InitProcess ==
    /\ pc = "process_story"
    /\ project_data \in Projects
    /\ cache_file = UnsplitCache(project_data)
    /\ story_pos = 0
    /\ video_exists = FALSE
    /\ story_duration = None
    /\ all_output_files = <<>>
    /\ process_result = <<>>
    /\ IdleCodec /\ IdleSplit /\ IdleSynth /\ IdleSpeed /\ IdleParse /\ IdleSubtitle /\ IdleRing /\ IdleConfig

NextProcess ==
    ProcessStory \/ SplitIteration \/ SplitTail \/ SplitStory \/ ProcessReturn

SpecProcess == InitProcess /\ [][NextProcess]_vars

-----------------------------------------------------------------------------
(* Properties of VideoSplitter.process *)

\* A step of the loops that takes the next story
TakesStory == pc = "process_story" /\ story_pos < Len(Positions(project_data))

\* The story taken was found with a file and a duration
Probed == video_exists' /\ ~NotDuration(story_duration')

InTargetRange(duration) ==
    /\ RatLe(RatInt(TARGET_MIN_DURATION), duration)
    /\ RatLe(duration, RatInt(TARGET_MAX_DURATION))

\* C28: process cuts a rendered file only when its duration exceeds
\* TARGET_MAX_DURATION: a story shorter than TARGET_MIN_DURATION adds no
\* output file, a story within the two bounds adds its exported file and
\* nothing else and is not split, only a story longer than the maximum
\* reaches calculate_split_points, a story without an exported video is
\* passed over and the loops go on with the next story, and the files come
\* back whole, each in the folder of its video.
CutsOnlyAboveMax ==
    /\ [][TakesStory =>
            /\ (~video_exists' =>
                    /\ all_output_files' = all_output_files
                    /\ story_pos' = story_pos + 1
                    /\ pc' = "process_story")
            /\ (CurrentStory.exported_video_path = None => ~video_exists')
            /\ (Probed /\ BelowMin(story_duration') =>
                    /\ all_output_files' = all_output_files
                    /\ pc' = "process_story")
            /\ (Probed /\ InTargetRange(story_duration') =>
                    /\ all_output_files' =
                           Append(all_output_files,
                                  CurrentStory.exported_video_path)
                    /\ pc' = "process_story")
            /\ (pc' = "split_loop" =>
                    /\ Probed
                    /\ RatLt(RatInt(TARGET_MAX_DURATION), story_duration')
                    /\ dialogues' = CurrentStory.dialogue)]_vars
    /\ [](pc = "process_done" =>
            process_result = MapOrganized(all_output_files))

\* process has returned the second story alone and whole, probed at
\* exactly TARGET_MAX_DURATION, after a first story without an exported
\* video.
WholeStoryAfterSkippedStory ==
    /\ pc = "process_done"
    /\ Len(project_data) = 2
    /\ Len(project_data[1].stories) = 1
    /\ project_data[1].stories[1].exported_video_path = None
    /\ story_duration = RatInt(TARGET_MAX_DURATION)
    /\ all_output_files = <<ExportedPath(2)>>
    /\ process_result = <<<<<<"output", "export", "BV1">>, <<"story", "2">>>>>>

\* A step that has split the story and collected its output files
HasSplitStory ==
    /\ pc = "split_done"
    /\ pc' = "process_story"
    /\ Len(all_output_files') > Len(all_output_files)

\* C29: once process has split a story, the list of its split segments is
\* in the cache file on that story, the same media segment and the same
\* story index, and the entry of every other story is as it was.
SplitRecordedOnThatStory ==
    [][HasSplitStory =>
          cache_file' =
              [cache_file EXCEPT
                  ![CurrentPosition[1]][CurrentPosition[2] + 1] =
                      split_video(CurrentStory.exported_video_path,
                                  split_points)]]_vars

=============================================================================
